---- MODULE Spec2Model ----
(***************************************************************************)
(* Dependency-graph engine of copilot-app-architect: the graph builder     *)
(* (buildGraph, createNode, inferNodeType, extractNodeName) and the        *)
(* GraphAnalyzer (getBlastRadius, findCouplingReason, detectCycles,        *)
(* getStatistics) and mergeGraphs of src/src/graph/analyzer.ts, and the    *)
(* GraphStorage of src/src/graph/storage.ts.                               *)
(*                                                                         *)
(* A JavaScript string is a sequence of one-character strings, so that     *)
(* startsWith, includes, split and template-literal concatenation are      *)
(* computed as the code computes them.  A DependencyType is one token: the *)
(* type is only compared with === and appended last to the edge key, and   *)
(* no DependencyType of src/src/types.ts contains the separator '|'.       *)
(***************************************************************************)
EXTENDS Integers, Sequences, FiniteSets, TLC

VARIABLES
    phase,                \* where the running request handler stands
    dependencies,         \* ParsedDependency[] handed to buildGraph (routes.ts:99)
    graph,                \* the DependencyGraph (GraphAnalyzer.graph once analysed)
    adjacencyList,        \* GraphAnalyzer.adjacencyList
    reverseAdjacencyList, \* GraphAnalyzer.reverseAdjacencyList
    request,              \* the call the handler makes, None when idle
    returned,             \* the value that call returned, None before it returns
    db,                   \* GraphStorage.db: the rows of the table graphs, by id
    deleting,             \* where the deleteGraph call in flight stands
    run,                  \* the locals of the traversal that is running
    sessions,             \* SessionManager.sessions, in insertion order
    now                   \* the clock new Date() reads, in milliseconds

vars == <<phase, dependencies, graph, adjacencyList, reverseAdjacencyList,
          request, returned, db, deleting, run, sessions, now>>

None == [op |-> "none"]

NoDelete == [status |-> "none"]

NoRun == [fn |-> "none"]

(***************************************************************************)
(* Bounds                                                                  *)
(***************************************************************************)
MaxFacts == 2     \* longest facts list given to buildGraph in SpecBuild
MaxDeps == 3      \* longest facts list behind an analysed graph in Spec
MaxNodeIds == 2   \* longest nodeIds list given to findCouplingReason
MaxNodes == 10    \* largest graph of SpecImpact
MaxCouplingDeps == 2   \* longest facts list behind a graph of SpecCoupling
MaxCouplingIds == 3    \* longest nodeIds list of SpecCoupling
MaxQueryDeps == 2      \* longest facts list behind a graph of SpecQueries
MaxStoredDeps == 1     \* longest facts list behind a graph saved in SpecStorage
MaxMergeFacts == 3     \* most facts behind the graphs of one mergeGraphs call
MaxCopies == 2         \* most copies of one graph in a mergeGraphs call
MaxIdParts == 2        \* most parts after the prefix in an id of SpecNode
MaxTraverseDeps == 2   \* most dependency facts of a graph of SpecTraverse
MaxMessages == 1       \* most messages in a conversation history of SpecSessions
MaxPeriods == 1        \* the clock of SpecSessions runs up to this many timeouts

(***************************************************************************)
(* String helpers (String.prototype.startsWith / includes / split().pop()) *)
(***************************************************************************)
startsWith(s, p) ==
    /\ Len(s) >= Len(p)
    /\ SubSeq(s, 1, Len(p)) = p

includes(s, p) ==
    \E i \in 0..(Len(s) - Len(p)) : SubSeq(s, i + 1, i + Len(p)) = p

\* s.split(sep).pop() for a one-character separator: the text after the last
\* occurrence of sep, the whole string when sep does not occur.
splitPop(s, sep) ==
    LET at == {i \in 1..Len(s) : s[i] = sep}
        last == IF at = {} THEN 0 ELSE CHOOSE i \in at : \A j \in at : j <= i
    IN SubSeq(s, last + 1, Len(s))

(***************************************************************************)
(* extractNodeName (analyzer.ts:409-426).  `x || id` falls back to id when *)
(* the popped segment is the empty string.                                 *)
(***************************************************************************)
\* Mutant of extractNodeName: the popped segment is returned even when empty.
extractNodeNameNoFallback(id) ==
    IF includes(id, <<"/">>)
    THEN splitPop(id, "/")
    ELSE IF includes(id, <<".">>)
    THEN splitPop(id, ".")
    ELSE id

extractNodeName(id) ==
    IF includes(id, <<"/">>)
    THEN (IF splitPop(id, "/") # <<>> THEN splitPop(id, "/") ELSE id)
    ELSE IF includes(id, <<".">>)
    THEN (IF splitPop(id, ".") # <<>> THEN splitPop(id, ".") ELSE id)
    ELSE IF startsWith(id, <<"@">>)
    THEN id
    ELSE id

(***************************************************************************)
(* inferNodeType (analyzer.ts:431-473)                                     *)
(***************************************************************************)
\* Mutant of inferNodeType: the rules on the dependency type come before the
\* rules on the id prefix.
inferNodeTypeKindFirst(id, depType) ==
    IF depType = "terraform_resource"
    THEN (IF \/ includes(id, <<"d","b">>)
             \/ includes(id, <<"r","d","s">>)
             \/ includes(id, <<"d","a","t","a","b","a","s","e">>)
          THEN "database"
          ELSE IF \/ includes(id, <<"q","u","e","u","e">>)
                  \/ includes(id, <<"s","q","s">>)
                  \/ includes(id, <<"s","n","s">>)
          THEN "queue"
          ELSE "terraform_resource")
    ELSE IF depType = "docker_depends_on" \/ depType = "docker_network"
    THEN "docker_service"
    ELSE IF depType = "npm_dependency" \/ depType = "npm_devDependency"
    THEN "npm_package"
    ELSE IF depType = "codeowner"
    THEN (IF startsWith(id, <<"@">>) THEN "team" ELSE "service")
    ELSE IF \/ startsWith(id, <<"D","e","p","l","o","y","m","e","n","t","/">>)
            \/ startsWith(id, <<"S","t","a","t","e","f","u","l","S","e","t","/">>)
            \/ startsWith(id, <<"D","a","e","m","o","n","S","e","t","/">>)
            \/ startsWith(id, <<"C","o","n","f","i","g","M","a","p","/">>)
            \/ startsWith(id, <<"S","e","c","r","e","t","/">>)
    THEN "k8s_deployment"
    ELSE IF startsWith(id, <<"S","e","r","v","i","c","e","/">>)
    THEN "k8s_service"
    ELSE "unknown"

inferNodeType(id, depType) ==
    IF \/ startsWith(id, <<"D","e","p","l","o","y","m","e","n","t","/">>)
       \/ startsWith(id, <<"S","t","a","t","e","f","u","l","S","e","t","/">>)
       \/ startsWith(id, <<"D","a","e","m","o","n","S","e","t","/">>)
    THEN "k8s_deployment"
    ELSE IF startsWith(id, <<"S","e","r","v","i","c","e","/">>)
    THEN "k8s_service"
    ELSE IF \/ startsWith(id, <<"C","o","n","f","i","g","M","a","p","/">>)
            \/ startsWith(id, <<"S","e","c","r","e","t","/">>)
    THEN "k8s_deployment"
    ELSE IF depType = "terraform_resource"
    THEN (IF \/ includes(id, <<"d","b">>)
             \/ includes(id, <<"r","d","s">>)
             \/ includes(id, <<"d","a","t","a","b","a","s","e">>)
          THEN "database"
          ELSE IF \/ includes(id, <<"q","u","e","u","e">>)
                  \/ includes(id, <<"s","q","s">>)
                  \/ includes(id, <<"s","n","s">>)
          THEN "queue"
          ELSE "terraform_resource")
    ELSE IF depType = "docker_depends_on" \/ depType = "docker_network"
    THEN "docker_service"
    ELSE IF depType = "npm_dependency" \/ depType = "npm_devDependency"
    THEN "npm_package"
    ELSE IF depType = "codeowner"
    THEN (IF startsWith(id, <<"@">>) THEN "team" ELSE "service")
    ELSE "unknown"

(***************************************************************************)
(* createNode (analyzer.ts:395-404)                                        *)
(***************************************************************************)
createNode(id, depType) ==
    [id |-> id,
     name |-> extractNodeName(id),
     type |-> inferNodeType(id, depType),
     metadata |-> [originalId |-> id]]

(***************************************************************************)
(* buildGraph (analyzer.ts:342-390).  nodesMap is a Map: its values() come *)
(* in insertion order, so it is the sequence of the nodes inserted.        *)
(* edgeSet is a Set of keys that is only asked has().  The graph's own id *)
(* and createdAt (uuidv4(), new Date()) play no part in building or        *)
(* analysing it and are left to the storage layer.                         *)
(***************************************************************************)
mapHas(nodesMap, id) == \E i \in 1..Len(nodesMap) : nodesMap[i].id = id

\* Mutant of setIfAbsent: the has() guard is missing and the node is added again.
setAlways(nodesMap, id, depType) == Append(nodesMap, createNode(id, depType))

\* Mutant of setIfAbsent: the guard is missing and Map.set overwrites the node.
setLastWins(nodesMap, id, depType) ==
    IF mapHas(nodesMap, id)
    THEN [i \in 1..Len(nodesMap) |->
            IF nodesMap[i].id = id THEN createNode(id, depType) ELSE nodesMap[i]]
    ELSE Append(nodesMap, createNode(id, depType))

\* Mutant of setIfAbsent: new nodes are put in front.
setIfAbsentInFront(nodesMap, id, depType) ==
    IF mapHas(nodesMap, id)
    THEN nodesMap
    ELSE <<createNode(id, depType)>> \o nodesMap

\* nodesMap.set(id, createNode(id, depType)) guarded by !nodesMap.has(id)
\* (analyzer.ts:351-356)
setIfAbsent(nodesMap, id, depType) ==
    IF mapHas(nodesMap, id)
    THEN nodesMap
    ELSE Append(nodesMap, createNode(id, depType))

\* First pass (analyzer.ts:350-357), facts i..Len(deps)
RECURSIVE collectNodes(_, _, _)
collectNodes(deps, i, nodesMap) ==
    IF i > Len(deps)
    THEN nodesMap
    ELSE collectNodes(deps, i + 1,
            setIfAbsent(setIfAbsent(nodesMap, deps[i].source, deps[i].type),
                        deps[i].target, deps[i].type))

\* `${dep.source}|${dep.target}|${dep.type}` (analyzer.ts:362)
edgeKey(dep) == dep.source \o <<"|">> \o dep.target \o <<"|">> \o <<dep.type>>

\* uuidv4() for the k-th edge emitted: a fresh value, distinct per edge
edgeUuid(k) == <<"uuid", k>>

\* Second pass (analyzer.ts:360-377), facts i..Len(deps)
RECURSIVE createEdges(_, _, _, _)
createEdges(deps, i, edgeSet, edges) ==
    IF i > Len(deps)
    THEN edges
    ELSE IF edgeKey(deps[i]) \in edgeSet
    THEN createEdges(deps, i + 1, edgeSet, edges)
    ELSE createEdges(deps, i + 1, edgeSet \cup {edgeKey(deps[i])},
            Append(edges, [id |-> edgeUuid(Len(edges) + 1),
                           source |-> deps[i].source,
                           target |-> deps[i].target,
                           type |-> deps[i].type,
                           metadata |-> deps[i].metadata]))

\* BuildGraphOptions of the call (routes.ts:107-111)
options == [name |-> "local", sourceType |-> "local", sourcePath |-> "/repo"]

buildGraph(deps) ==
    [name |-> options.name,
     nodes |-> collectNodes(deps, 1, <<>>),
     edges |-> createEdges(deps, 1, {}, <<>>),
     metadata |-> [sourceType |-> options.sourceType,
                   sourcePath |-> options.sourcePath]]

NoGraph == [name |-> "", nodes |-> <<>>, edges |-> <<>>,
            metadata |-> [sourceType |-> "local", sourcePath |-> ""]]

(***************************************************************************)
(* Inputs of the builder specification                                     *)
(***************************************************************************)
BuildIds == { <<"a">>, <<"a", "|", "a">>, <<"d", "b">> }
BuildTypes == {"terraform_resource", "npm_dependency"}
BuildMetadata == {"m1", "m2"}

BuildFacts ==
    [source : BuildIds, target : BuildIds, type : BuildTypes, metadata : BuildMetadata]

SeqsUpTo(S, n) == UNION {[1..k -> S] : k \in 0..n}

(***************************************************************************)
(* SpecBuild: POST /scan parses the files and builds the graph             *)
(* (routes.ts:98-111), then answers (routes.ts:115).  The facts and the    *)
(* graph are locals of the handler: they are gone once it has answered.    *)
(* The saveGraph the handler starts (routes.ts:113) is not awaited: its    *)
(* write is a later step of the storage, the action SaveGraph.             *)
(***************************************************************************)
Idle ==
    /\ phase = "idle"
    /\ dependencies = <<>>
    /\ graph = NoGraph
    /\ adjacencyList = <<>>
    /\ reverseAdjacencyList = <<>>
    /\ request = None
    /\ returned = None
    /\ db = <<>>
    /\ deleting = NoDelete
    /\ run = NoRun
    /\ sessions = <<>>
    /\ now = 0

Init == Idle

Scan(deps) ==
    /\ phase = "idle"
    /\ phase' = "done"
    /\ dependencies' = deps
    /\ graph' = buildGraph(deps)
    /\ request' = [op |-> "buildGraph"]
    /\ returned' = [success |-> TRUE,
                    nodeCount |-> Len(graph'.nodes),
                    edgeCount |-> Len(graph'.edges)]
    /\ UNCHANGED <<adjacencyList, reverseAdjacencyList, db, deleting, run, sessions, now>>

Respond ==
    /\ phase = "done"
    /\ phase' = "idle"
    /\ dependencies' = <<>>
    /\ graph' = NoGraph
    /\ adjacencyList' = <<>>
    /\ reverseAdjacencyList' = <<>>
    /\ request' = None
    /\ returned' = None
    /\ run' = NoRun
    /\ UNCHANGED <<db, deleting, sessions, now>>

NextBuild ==
    \/ phase = "idle" /\ \E deps \in SeqsUpTo(BuildFacts, MaxFacts) : Scan(deps)
    \/ Respond

SpecBuild == Init /\ [][NextBuild]_vars

(***************************************************************************)
(* SpecNode: createNode on one id and one dependency type                  *)
(* (analyzer.ts:352, 355).  An id is one of the Kubernetes prefixes, or    *)
(* none, followed by up to MaxIdParts parts.                               *)
(***************************************************************************)
IdPrefixes ==
    { <<>>,
      <<"D", "e", "p", "l", "o", "y", "m", "e", "n", "t", "/">>,
      <<"S", "t", "a", "t", "e", "f", "u", "l", "S", "e", "t", "/">>,
      <<"D", "a", "e", "m", "o", "n", "S", "e", "t", "/">>,
      <<"S", "e", "r", "v", "i", "c", "e", "/">>,
      <<"C", "o", "n", "f", "i", "g", "M", "a", "p", "/">>,
      <<"S", "e", "c", "r", "e", "t", "/">> }

IdParts ==
    { <<"d", "b">>,
      <<"r", "d", "s">>,
      <<"d", "a", "t", "a", "b", "a", "s", "e">>,
      <<"q", "u", "e", "u", "e">>,
      <<"s", "q", "s">>,
      <<"s", "n", "s">>,
      <<"/">>,
      <<".">>,
      <<"x">>,
      <<"@">> }

DependencyTypes ==
    { "terraform_resource", "docker_depends_on", "docker_network", "k8s_service",
      "k8s_deployment", "k8s_configmap", "k8s_secret", "npm_dependency",
      "npm_devDependency", "codeowner", "unknown" }

\* the concatenation of the strings of the list parts
RECURSIVE concat(_)
concat(parts) == IF Len(parts) = 0 THEN <<>> ELSE parts[1] \o concat(Tail(parts))

CreateNode(id, depType) ==
    /\ phase = "idle"
    /\ phase' = "done"
    /\ request' = [op |-> "createNode", id |-> id, depType |-> depType]
    /\ returned' = createNode(id, depType)
    /\ UNCHANGED <<dependencies, graph, adjacencyList, reverseAdjacencyList, db, deleting, run, sessions, now>>

NextNode ==
    \/ phase = "idle" /\ \E prefix \in IdPrefixes : \E parts \in SeqsUpTo(IdParts, MaxIdParts) :
          \E depType \in DependencyTypes : CreateNode(prefix \o concat(parts), depType)
    \/ Respond

SpecNode == Init /\ [][NextNode]_vars

(***************************************************************************)
(* mergeGraphs (analyzer.ts:478-510).  nodesMap is the sequence of the     *)
(* nodes inserted, edgeSet a Set of keys that is only asked has(); acc is  *)
(* the pair of edgeSet and edges.  The id and createdAt of the merged      *)
(* graph are a fresh uuid and a clock reading and are left out.            *)
(***************************************************************************)
\* analyzer.ts:484-488, nodes i..Len(nodes)
RECURSIVE mergeNodes(_, _, _)
mergeNodes(nodes, i, nodesMap) ==
    IF i > Len(nodes)
    THEN nodesMap
    ELSE mergeNodes(nodes, i + 1,
            IF mapHas(nodesMap, nodes[i].id) THEN nodesMap ELSE Append(nodesMap, nodes[i]))

\* Mutant of seenEdge: no key is ever found in edgeSet.
seenEdgeNever(edgeSet, key) == FALSE

\* edgeSet.has(edgeKey) (analyzer.ts:492)
seenEdge(edgeSet, key) == key \in edgeSet

\* analyzer.ts:490-496, edges i..Len(edges); the key is the template of edgeKey
RECURSIVE mergeEdges(_, _, _)
mergeEdges(edges, i, acc) ==
    IF i > Len(edges)
    THEN acc
    ELSE IF seenEdge(acc.edgeSet, edgeKey(edges[i]))
    THEN mergeEdges(edges, i + 1, acc)
    ELSE mergeEdges(edges, i + 1,
            [edgeSet |-> acc.edgeSet \cup {edgeKey(edges[i])},
             edges |-> Append(acc.edges, edges[i])])

\* analyzer.ts:483-497, graphs k..Len(graphs)
RECURSIVE mergeFrom(_, _, _, _)
mergeFrom(graphs, k, nodesMap, acc) ==
    IF k > Len(graphs)
    THEN [nodes |-> nodesMap, edges |-> acc.edges]
    ELSE mergeFrom(graphs, k + 1,
            mergeNodes(graphs[k].nodes, 1, nodesMap),
            mergeEdges(graphs[k].edges, 1, acc))

mergeGraphs(graphs, name) ==
    LET merged == mergeFrom(graphs, 1, <<>>, [edgeSet |-> {}, edges |-> <<>>])
    IN [name |-> name,
        nodes |-> merged.nodes,
        edges |-> merged.edges,
        metadata |-> [sourceType |-> "local", sourcePath |-> "merged"]]

(***************************************************************************)
(* Inputs of the merge specification: graphs that buildGraph built.  A     *)
(* list of facts cut at the positions in cuts gives one graph per piece.   *)
(***************************************************************************)
MergeIdPairs ==
    { << <<"a">>, <<"a", "|", "a">> >>, << <<"a", "|", "a">>, <<"a">> >>, << <<"a">>, <<"a">> >> }

MergeFacts ==
    {f \in [source : BuildIds, target : BuildIds, type : BuildTypes, metadata : BuildMetadata] :
        <<f.source, f.target>> \in MergeIdPairs}

MergeName == "merged"

\* the k-th least member of the set B of numbers
kth(B, k) == CHOOSE b \in B : Cardinality({c \in B : c < b}) = k - 1

splitGraphs(deps, cuts) ==
    LET B == {0, Len(deps)} \cup cuts
    IN [k \in 1..(Cardinality(B) - 1) |->
            buildGraph(SubSeq(deps, kth(B, k) + 1, kth(B, k + 1)))]

(***************************************************************************)
(* SpecMerge: a caller merges graphs that were built before and gets the   *)
(* merged graph back.                                                      *)
(***************************************************************************)
MergeGraphs(graphs, name) ==
    /\ phase = "idle"
    /\ phase' = "done"
    /\ request' = [op |-> "mergeGraphs", graphs |-> graphs, name |-> name]
    /\ returned' = mergeGraphs(graphs, name)
    /\ UNCHANGED <<dependencies, graph, adjacencyList, reverseAdjacencyList, db, deleting, run, sessions, now>>

NextMerge ==
    \/ phase = "idle" /\ \E deps \in SeqsUpTo(MergeFacts, MaxMergeFacts) :
          \E cuts \in SUBSET (1..(Len(deps) - 1)) :
             MergeGraphs(splitGraphs(deps, cuts), MergeName)
    \/ phase = "idle" /\ \E deps \in SeqsUpTo(MergeFacts, MaxMergeFacts) :
          \E n \in 1..MaxCopies :
             MergeGraphs([k \in 1..n |-> buildGraph(deps)], MergeName)
    \/ Respond

SpecMerge == Init /\ [][NextMerge]_vars

(***************************************************************************)
(* GraphAnalyzer (analyzer.ts:13-319).  A Map<string, string[]> is a       *)
(* function from its keys; `map.get(k) || []` is mapGet.                   *)
(***************************************************************************)
mapGet(map, k) == IF k \in DOMAIN map THEN map[k] ELSE <<>>

mapSet(map, k, v) == [x \in (DOMAIN map) \cup {k} |-> IF x = k THEN v ELSE map[x]]

nodeIdsOf(g) == {g.nodes[i].id : i \in 1..Len(g.nodes)}

\* analyzer.ts:34-38, edges i..Len(g.edges)
RECURSIVE addTargets(_, _, _)
addTargets(g, i, adj) ==
    IF i > Len(g.edges)
    THEN adj
    ELSE addTargets(g, i + 1,
            mapSet(adj, g.edges[i].source,
                   Append(mapGet(adj, g.edges[i].source), g.edges[i].target)))

\* buildAdjacencyList (analyzer.ts:27-41)
buildAdjacencyList(g) == addTargets(g, 1, [id \in nodeIdsOf(g) |-> <<>>])

\* analyzer.ts:53-57, edges i..Len(g.edges)
RECURSIVE addSources(_, _, _)
addSources(g, i, adj) ==
    IF i > Len(g.edges)
    THEN adj
    ELSE addSources(g, i + 1,
            mapSet(adj, g.edges[i].target,
                   Append(mapGet(adj, g.edges[i].target), g.edges[i].source)))

\* buildReverseAdjacencyList (analyzer.ts:46-60)
buildReverseAdjacencyList(g) == addSources(g, 1, [id \in nodeIdsOf(g) |-> <<>>])

(***************************************************************************)
(* Numbers.  The quotient of two counts is kept as the fraction in lowest  *)
(* terms; x/0 keeps denominator 0 (0/0 is NaN, which compares false with   *)
(* everything).  A decimal literal is the fraction it denotes.  For counts *)
(* below 2^31 the correctly rounded double a/n compares with the doubles   *)
(* 0.5, 0.25 and 0.1 exactly as the fractions do: rounding is monotone and *)
(* a/n differs from each literal by at least 1/(10n) when it differs.      *)
(***************************************************************************)
RECURSIVE gcd(_, _)
gcd(a, b) == IF b = 0 THEN a ELSE gcd(b, a % b)

div(a, b) ==
    IF b = 0
    THEN [num |-> IF a = 0 THEN 0 ELSE 1, den |-> 0]
    ELSE [num |-> a \div gcd(a, b), den |-> b \div gcd(a, b)]

Zero == div(0, 1)
Half == div(5, 10)         \* the literal 0.5  (analyzer.ts:93)
Quarter == div(25, 100)    \* the literal 0.25 (analyzer.ts:95)
Tenth == div(1, 10)        \* the literal 0.1  (analyzer.ts:97)

isNaN(x) == x.num = 0 /\ x.den = 0

gt(x, y) == ~isNaN(x) /\ ~isNaN(y) /\ x.num * y.den > y.num * x.den

(***************************************************************************)
(* getBlastRadius (analyzer.ts:66-109).  `affected` is a Set that is only  *)
(* asked has(); `queue` is the array used as a FIFO.                       *)
(***************************************************************************)
\* Mutant of notYetAffected: the start node is not excluded.
notYetAffectedAny(dep, nodeId, affected) == dep \notin affected

\* analyzer.ts:76
notYetAffected(dep, nodeId, affected) == dep \notin affected /\ dep # nodeId

\* analyzer.ts:75-80, dependents i..Len(dependents) of the current node
RECURSIVE visitDependents(_, _, _, _, _)
visitDependents(dependents, i, nodeId, affected, queue) ==
    IF i > Len(dependents)
    THEN [affected |-> affected, queue |-> queue]
    ELSE IF notYetAffected(dependents[i], nodeId, affected)
    THEN visitDependents(dependents, i + 1, nodeId,
                         affected \cup {dependents[i]}, Append(queue, dependents[i]))
    ELSE visitDependents(dependents, i + 1, nodeId, affected, queue)

\* analyzer.ts:71-81
RECURSIVE bfs(_, _, _)
bfs(nodeId, affected, queue) ==
    IF Len(queue) = 0
    THEN affected
    ELSE LET current == Head(queue)
             dependents == mapGet(reverseAdjacencyList, current)
             step == visitDependents(dependents, 1, nodeId, affected, Tail(queue))
         IN bfs(nodeId, step.affected, step.queue)

affectedSet(nodeId) == bfs(nodeId, {}, <<nodeId>>)

\* analyzer.ts:83
affectedNodesOf(nodeId) ==
    LET affected == affectedSet(nodeId)
    IN SelectSeq(graph.nodes, LAMBDA n : n.id \in affected)

\* Mutant of affectedEdgesOf: the edges into nodeId are not added.
affectedEdgesTouchingAffected(nodeId) ==
    LET affected == affectedSet(nodeId)
    IN SelectSeq(graph.edges,
                 LAMBDA e : e.source \in affected \/ e.target \in affected)

\* Mutant of affectedEdgesOf: every edge of the graph is reported.
affectedEdgesEveryEdge(nodeId) == graph.edges

\* analyzer.ts:84-86
affectedEdgesOf(nodeId) ==
    LET affected == affectedSet(nodeId)
    IN SelectSeq(graph.edges,
                 LAMBDA e : \/ e.source \in affected
                            \/ e.target \in affected
                            \/ e.target = nodeId)

\* Mutant of impactLevelOf: the comparisons are >= instead of >.
impactLevelInclusive(ratio) ==
    IF gt(ratio, Half) \/ ratio = Half THEN "critical"
    ELSE IF gt(ratio, Quarter) \/ ratio = Quarter THEN "high"
    ELSE IF gt(ratio, Tenth) \/ ratio = Tenth THEN "medium"
    ELSE "low"

\* Mutant of impactLevelOf: the bands are tested from the bottom with <=, so
\* that NaN, which is <= nothing, falls through to 'critical'.
impactLevelFromBelow(ratio) ==
    IF ~isNaN(ratio) /\ ~gt(ratio, Tenth) THEN "low"
    ELSE IF ~isNaN(ratio) /\ ~gt(ratio, Quarter) THEN "medium"
    ELSE IF ~isNaN(ratio) /\ ~gt(ratio, Half) THEN "high"
    ELSE "critical"

\* analyzer.ts:93-101
impactLevelOf(ratio) ==
    IF gt(ratio, Half) THEN "critical"
    ELSE IF gt(ratio, Quarter) THEN "high"
    ELSE IF gt(ratio, Tenth) THEN "medium"
    ELSE "low"

getBlastRadius(nodeId) ==
    LET affectedNodes == affectedNodesOf(nodeId)
        totalNodes == Len(graph.nodes)
        ratio == div(Len(affectedNodes), totalNodes)
    IN [targetNode |-> nodeId,
        affectedNodes |-> affectedNodes,
        affectedEdges |-> affectedEdgesOf(nodeId),
        impactLevel |-> impactLevelOf(ratio)]

(***************************************************************************)
(* findCouplingReason (analyzer.ts:114-187).  A Set<string> that is later  *)
(* iterated is the sequence of its members in insertion order.  A literal  *)
(* piece of text is one token; ids and names are spliced in as they are.   *)
(***************************************************************************)
setHas(set, x) == \E i \in 1..Len(set) : set[i] = x

\* collectAllDependencies (analyzer.ts:240-248); eachDependency is its loop
RECURSIVE collectAllDependencies(_, _), eachDependency(_, _, _)
eachDependency(deps, i, result) ==
    IF i > Len(deps)
    THEN result
    ELSE IF ~setHas(result, deps[i])
    THEN eachDependency(deps, i + 1,
                        collectAllDependencies(deps[i], Append(result, deps[i])))
    ELSE eachDependency(deps, i + 1, result)

collectAllDependencies(nodeId, result) ==
    eachDependency(mapGet(adjacencyList, nodeId), 1, result)

\* collectAllDependents (analyzer.ts:253-261); eachDependent is its loop
RECURSIVE collectAllDependents(_, _), eachDependent(_, _, _)
eachDependent(deps, i, result) ==
    IF i > Len(deps)
    THEN result
    ELSE IF ~setHas(result, deps[i])
    THEN eachDependent(deps, i + 1,
                       collectAllDependents(deps[i], Append(result, deps[i])))
    ELSE eachDependent(deps, i + 1, result)

\* Mutant of collectAllDependents: the forward adjacency list is followed.
collectAllDependentsForward(nodeId, result) ==
    eachDependent(mapGet(adjacencyList, nodeId), 1, result)

collectAllDependents(nodeId, result) ==
    eachDependent(mapGet(reverseAdjacencyList, nodeId), 1, result)

\* analyzer.ts:270-272, sets i..Len(sets)
RECURSIVE intersectFrom(_, _, _)
intersectFrom(sets, i, result) ==
    IF i > Len(sets)
    THEN result
    ELSE intersectFrom(sets, i + 1, SelectSeq(result, LAMBDA x : setHas(sets[i], x)))

\* Mutant of intersectSets: the loop starts one set too late.
intersectSetsFromThird(sets) ==
    IF Len(sets) = 0 THEN <<>> ELSE intersectFrom(sets, 3, sets[1])

\* intersectSets (analyzer.ts:266-275)
intersectSets(sets) ==
    IF Len(sets) = 0 THEN <<>> ELSE intersectFrom(sets, 2, sets[1])

\* analyzer.ts:125-129
dependencySets(nodeIds) ==
    [k \in 1..Len(nodeIds) |-> collectAllDependencies(nodeIds[k], <<>>)]

\* analyzer.ts:131-132
sharedDependenciesOf(nodeIds) ==
    LET sharedDeps == intersectSets(dependencySets(nodeIds))
    IN SelectSeq(graph.nodes, LAMBDA n : setHas(sharedDeps, n.id))

\* Mutant of dependentSets: each set starts out holding the id itself.
dependentSetsWithSelf(nodeIds) ==
    [k \in 1..Len(nodeIds) |-> collectAllDependents(nodeIds[k], <<nodeIds[k]>>)]

\* analyzer.ts:135-139
dependentSets(nodeIds) ==
    [k \in 1..Len(nodeIds) |-> collectAllDependents(nodeIds[k], <<>>)]

\* analyzer.ts:141
sharedDependentsOf(nodeIds) == intersectSets(dependentSets(nodeIds))

\* Mutant of couplingStrengthOf: the shared dependents are not counted.
couplingStrengthOfDependencies(sharedDependencies, sharedDependents) ==
    LET totalConnections == Len(sharedDependencies)
        maxPossible == Len(graph.nodes)
    IN IF maxPossible > 0 THEN div(totalConnections, maxPossible) ELSE Zero

\* Mutant of couplingStrengthOf: the quotient is capped at 1.
couplingStrengthClamped(sharedDependencies, sharedDependents) ==
    LET totalConnections == Len(sharedDependencies) + Len(sharedDependents)
        maxPossible == Len(graph.nodes)
    IN IF maxPossible > 0
       THEN (IF totalConnections > maxPossible
             THEN div(1, 1)
             ELSE div(totalConnections, maxPossible))
       ELSE Zero

\* analyzer.ts:144-146
couplingStrengthOf(sharedDependencies, sharedDependents) ==
    LET totalConnections == Len(sharedDependencies) + Len(sharedDependents)
        maxPossible == Len(graph.nodes)
    IN IF maxPossible > 0 THEN div(totalConnections, maxPossible) ELSE Zero

\* Array.prototype.join(', ')
RECURSIVE join(_)
join(names) ==
    IF Len(names) = 0 THEN <<>>
    ELSE IF Len(names) = 1 THEN names[1]
    ELSE names[1] \o <<",", " ">> \o join(Tail(names))

\* this.graph.nodes.find(n => n.id === id)?.name || id (analyzer.ts:159)
nameOrId(id) ==
    LET at == {i \in 1..Len(graph.nodes) : graph.nodes[i].id = id}
        first == CHOOSE i \in at : \A j \in at : i <= j
    IN IF at # {} /\ graph.nodes[first].name # <<>> THEN graph.nodes[first].name ELSE id

\* Mutant of directEdge: only an edge from the first id to the second counts.
directEdgeForward(x, y) ==
    \E i \in 1..Len(graph.edges) :
        graph.edges[i].source = x /\ graph.edges[i].target = y

\* this.graph.edges.find(...) of analyzer.ts:167-170 finds an edge
directEdge(x, y) ==
    \E i \in 1..Len(graph.edges) :
        \/ graph.edges[i].source = x /\ graph.edges[i].target = y
        \/ graph.edges[i].source = y /\ graph.edges[i].target = x

\* analyzer.ts:165-175, from the index pair (i, j) on; indices from 1
RECURSIVE directReasons(_, _, _, _)
directReasons(nodeIds, i, j, reasons) ==
    IF i > Len(nodeIds)
    THEN reasons
    ELSE IF j > Len(nodeIds)
    THEN directReasons(nodeIds, i + 1, i + 2, reasons)
    ELSE IF directEdge(nodeIds[i], nodeIds[j])
    THEN directReasons(nodeIds, i, j + 1,
            Append(reasons, <<"Direct dependency between ">> \o nodeIds[i]
                            \o <<" and ">> \o nodeIds[j]))
    ELSE directReasons(nodeIds, i, j + 1, reasons)

NeedTwo == <<"Need at least 2 nodes to analyze coupling">>
NoCoupling == <<"No direct coupling found between the selected nodes">>

\* Mutant of reasonsOf: the fallback line is never pushed.
reasonsWithoutFallback(nodeIds, sharedDependencies, sharedDependents) ==
    LET r1 == IF Len(sharedDependencies) > 0
              THEN << <<"Shared dependencies: ">>
                      \o join([k \in 1..Len(sharedDependencies) |-> sharedDependencies[k].name]) >>
              ELSE <<>>
        r2 == IF Len(sharedDependents) > 0
              THEN Append(r1, <<"Common dependents: ">>
                      \o join([k \in 1..Len(sharedDependents) |-> nameOrId(sharedDependents[k])]))
              ELSE r1
    IN directReasons(nodeIds, 1, 2, r2)

\* analyzer.ts:149-179
reasonsOf(nodeIds, sharedDependencies, sharedDependents) ==
    LET r1 == IF Len(sharedDependencies) > 0
              THEN << <<"Shared dependencies: ">>
                      \o join([k \in 1..Len(sharedDependencies) |-> sharedDependencies[k].name]) >>
              ELSE <<>>
        r2 == IF Len(sharedDependents) > 0
              THEN Append(r1, <<"Common dependents: ">>
                      \o join([k \in 1..Len(sharedDependents) |-> nameOrId(sharedDependents[k])]))
              ELSE r1
        r3 == directReasons(nodeIds, 1, 2, r2)
    IN IF Len(r3) = 0 THEN <<NoCoupling>> ELSE r3

\* Mutant of tooFewNodeIds: one id is let through.
noNodeIds(nodeIds) == Len(nodeIds) < 1

\* analyzer.ts:115
tooFewNodeIds(nodeIds) == Len(nodeIds) < 2

findCouplingReason(nodeIds) ==
    IF tooFewNodeIds(nodeIds)
    THEN [nodes |-> nodeIds,
          sharedDependencies |-> <<>>,
          couplingStrength |-> Zero,
          reasons |-> <<NeedTwo>>]
    ELSE LET sharedDependencies == sharedDependenciesOf(nodeIds)
             sharedDependents == sharedDependentsOf(nodeIds)
         IN [nodes |-> nodeIds,
             sharedDependencies |-> sharedDependencies,
             couplingStrength |-> couplingStrengthOf(sharedDependencies, sharedDependents),
             reasons |-> reasonsOf(nodeIds, sharedDependencies, sharedDependents)]

(***************************************************************************)
(* detectCycles (analyzer.ts:192-235).  st is the state the closure dfs    *)
(* works on: cycles, visited, recStack and path.  visited and recStack are *)
(* Sets that are only asked has(); path is an array.                       *)
(***************************************************************************)
\* Array.prototype.indexOf, counted from 0; -1 when x is not in arr
indexOf(arr, x) ==
    LET at == {i \in 1..Len(arr) : arr[i] = x}
    IN IF at = {} THEN -1 ELSE (CHOOSE i \in at : \A j \in at : i <= j) - 1

\* Array.prototype.slice(start): a negative start counts from the end
slice(arr, start) ==
    LET from == IF start < 0
                THEN (IF Len(arr) + start < 0 THEN 0 ELSE Len(arr) + start)
                ELSE start
    IN SubSeq(arr, from + 1, Len(arr))

\* cycleIds.map(id => this.graph.nodes.find(n => n.id === id)).filter(...)
\* (analyzer.ts:211-213)
RECURSIVE cycleNodesOf(_, _)
cycleNodesOf(cycleIds, i) ==
    IF i > Len(cycleIds)
    THEN <<>>
    ELSE LET at == {k \in 1..Len(graph.nodes) : graph.nodes[k].id = cycleIds[i]}
         IN IF at = {}
            THEN cycleNodesOf(cycleIds, i + 1)
            ELSE <<graph.nodes[CHOOSE k \in at : \A j \in at : k <= j]>>
                    \o cycleNodesOf(cycleIds, i + 1)

\* Mutant of foundCycle: the whole path is reported, not its part from the
\* neighbor on.
foundCycleWholePath(neighbor, st) ==
    LET cycleNodes == cycleNodesOf(st.path, 1)
    IN IF Len(cycleNodes) > 0
       THEN [st EXCEPT !.cycles = Append(@, cycleNodes)]
       ELSE st

\* Mutant of foundCycle: a cycle that is already listed is not listed again.
foundCycleOnce(neighbor, st) ==
    LET cycleStart == indexOf(st.path, neighbor)
        cycleIds == slice(st.path, cycleStart)
        cycleNodes == cycleNodesOf(cycleIds, 1)
    IN IF Len(cycleNodes) > 0 /\ \A k \in 1..Len(st.cycles) : st.cycles[k] # cycleNodes
       THEN [st EXCEPT !.cycles = Append(@, cycleNodes)]
       ELSE st

\* analyzer.ts:207-219: the neighbor is on the recursion stack
foundCycle(neighbor, st) ==
    LET cycleStart == indexOf(st.path, neighbor)
        cycleIds == slice(st.path, cycleStart)
        cycleNodes == cycleNodesOf(cycleIds, 1)
    IN IF Len(cycleNodes) > 0
       THEN [st EXCEPT !.cycles = Append(@, cycleNodes)]
       ELSE st

\* dfs (analyzer.ts:198-223); eachNeighbor is its loop, neighbors i..Len
RECURSIVE dfs(_, _), eachNeighbor(_, _, _)
eachNeighbor(neighbors, i, st) ==
    IF i > Len(neighbors)
    THEN st
    ELSE IF neighbors[i] \notin st.visited
    THEN eachNeighbor(neighbors, i + 1, dfs(neighbors[i], st))
    ELSE IF neighbors[i] \in st.recStack
    THEN eachNeighbor(neighbors, i + 1, foundCycle(neighbors[i], st))
    ELSE eachNeighbor(neighbors, i + 1, st)

dfs(nodeId, st) ==
    LET entered == [st EXCEPT !.visited = @ \cup {nodeId},
                              !.recStack = @ \cup {nodeId},
                              !.path = Append(@, nodeId)]
        left == eachNeighbor(mapGet(adjacencyList, nodeId), 1, entered)
    IN [left EXCEPT !.path = SubSeq(@, 1, Len(@) - 1),
                    !.recStack = @ \ {nodeId}]

\* analyzer.ts:225-229, nodes i..Len(graph.nodes)
RECURSIVE eachRoot(_, _)
eachRoot(i, st) ==
    IF i > Len(graph.nodes)
    THEN st
    ELSE IF graph.nodes[i].id \notin st.visited
    THEN eachRoot(i + 1, dfs(graph.nodes[i].id, st))
    ELSE eachRoot(i + 1, st)

\* analyzer.ts:193-196
noCycles == [cycles |-> <<>>, visited |-> {}, recStack |-> {}, path |-> <<>>]

\* Mutant of detectCycles: the search starts at the first node only.
detectCyclesFromFirstNode ==
    LET st == IF Len(graph.nodes) = 0 THEN noCycles ELSE dfs(graph.nodes[1].id, noCycles)
    IN [cycles |-> st.cycles,
        severity |-> IF Len(st.cycles) > 0 THEN "error" ELSE "warning"]

detectCycles ==
    LET st == eachRoot(1, noCycles)
    IN [cycles |-> st.cycles,
        severity |-> IF Len(st.cycles) > 0 THEN "error" ELSE "warning"]

(***************************************************************************)
(* getStatistics (analyzer.ts:280-311).  A Map<string, number> turned into *)
(* an object by Object.fromEntries is the function from its keys.          *)
(***************************************************************************)
\* analyzer.ts:282-285 and 288-291, items i..Len(items)
RECURSIVE countTypes(_, _, _)
countTypes(items, i, counts) ==
    IF i > Len(items)
    THEN counts
    ELSE LET count == IF items[i].type \in DOMAIN counts THEN counts[items[i].type] ELSE 0
         IN countTypes(items, i + 1, mapSet(counts, items[i].type, count + 1))

\* analyzer.ts:294-298
nodeConnections ==
    [i \in 1..Len(graph.nodes) |->
        [node |-> graph.nodes[i],
         inbound |-> Len(mapGet(reverseAdjacencyList, graph.nodes[i].id)),
         outbound |-> Len(mapGet(adjacencyList, graph.nodes[i].id))]]

\* Mutant of compareConnections: the least connected come first.
compareAscending(a, b) == (a.inbound + a.outbound) - (b.inbound + b.outbound)

\* the comparator of analyzer.ts:301: negative when a goes before b
compareConnections(a, b) == (b.inbound + b.outbound) - (a.inbound + a.outbound)

\* Array.prototype.sort is stable: x goes in front of the first element
\* that the comparator puts strictly after it
insertSorted(sorted, x) ==
    LET after == {i \in 1..Len(sorted) : compareConnections(x, sorted[i]) < 0}
        at == IF after = {} THEN Len(sorted) + 1 ELSE CHOOSE i \in after : \A j \in after : i <= j
    IN SubSeq(sorted, 1, at - 1) \o <<x>> \o SubSeq(sorted, at, Len(sorted))

RECURSIVE sortFrom(_, _, _)
sortFrom(arr, i, sorted) ==
    IF i > Len(arr) THEN sorted ELSE sortFrom(arr, i + 1, insertSorted(sorted, arr[i]))

sort(arr) == sortFrom(arr, 1, <<>>)

MostConnectedCount == 5   \* slice(0, 5) (analyzer.ts:302)

getStatistics ==
    LET sorted == sort(nodeConnections)
    IN [totalNodes |-> Len(graph.nodes),
        totalEdges |-> Len(graph.edges),
        nodeTypes |-> countTypes(graph.nodes, 1, <<>>),
        edgeTypes |-> countTypes(graph.edges, 1, <<>>),
        mostConnected |->
            SubSeq(sorted, 1, IF Len(sorted) < MostConnectedCount
                              THEN Len(sorted) ELSE MostConnectedCount)]

(***************************************************************************)
(* Inputs of the analyzer specifications.  Every graph analysed was built  *)
(* by buildGraph and loaded back from the storage (routes.ts:107-113,      *)
(* 266-273).                                                               *)
(***************************************************************************)
AnalyzerIds == { <<"a">>, <<"b">>, <<"c">> }
AnalyzerTypes == {"docker_depends_on"}
AbsentId == <<"z">>

AnalyzerFacts ==
    [source : AnalyzerIds, target : AnalyzerIds, type : AnalyzerTypes, metadata : {"m1"}]

\* the ids a caller asks about: the nodes of the graph and one id that is none
QueryIds == nodeIdsOf(graph) \cup {AbsentId}

(***************************************************************************)
(* Spec: a request loads a graph and constructs the analyzer               *)
(* (analyzer.ts:18-22), calls one query on it and answers.                 *)
(***************************************************************************)
NewAnalyzer(deps) ==
    /\ phase = "idle"
    /\ phase' = "ready"
    /\ graph' = buildGraph(deps)
    /\ adjacencyList' = buildAdjacencyList(graph')
    /\ reverseAdjacencyList' = buildReverseAdjacencyList(graph')
    /\ UNCHANGED <<dependencies, request, returned, db, deleting, run, sessions, now>>

GetBlastRadius(nodeId) ==
    /\ phase = "ready"
    /\ phase' = "done"
    /\ request' = [op |-> "getBlastRadius", nodeId |-> nodeId]
    /\ returned' = getBlastRadius(nodeId)
    /\ UNCHANGED <<dependencies, graph, adjacencyList, reverseAdjacencyList, db, deleting, run, sessions, now>>

FindCouplingReason(nodeIds) ==
    /\ phase = "ready"
    /\ phase' = "done"
    /\ request' = [op |-> "findCouplingReason", nodeIds |-> nodeIds]
    /\ returned' = findCouplingReason(nodeIds)
    /\ UNCHANGED <<dependencies, graph, adjacencyList, reverseAdjacencyList, db, deleting, run, sessions, now>>

Next ==
    \/ phase = "idle" /\ \E deps \in SeqsUpTo(AnalyzerFacts, MaxDeps) : NewAnalyzer(deps)
    \/ phase = "ready" /\ \E nodeId \in QueryIds : GetBlastRadius(nodeId)
    \/ phase = "ready" /\ \E nodeIds \in SeqsUpTo(QueryIds, MaxNodeIds) : FindCouplingReason(nodeIds)
    \/ Respond

Spec == Init /\ [][Next]_vars

(***************************************************************************)
(* SpecCoupling: findCouplingReason with lists of up to MaxCouplingIds ids *)
(* (several index pairs) on the graphs of up to MaxCouplingDeps facts.     *)
(***************************************************************************)
NextCoupling ==
    \/ phase = "idle" /\ \E deps \in SeqsUpTo(AnalyzerFacts, MaxCouplingDeps) : NewAnalyzer(deps)
    \/ phase = "ready" /\ \E nodeIds \in SeqsUpTo(QueryIds, MaxCouplingIds) : FindCouplingReason(nodeIds)
    \/ Respond

SpecCoupling == Init /\ [][NextCoupling]_vars

(***************************************************************************)
(* SpecImpact: blast radius on graphs of up to MaxNodes nodes.  The graph  *)
(* of ImpactDeps(n, a) has n nodes; a of them form a chain of dependents   *)
(* of node n0 and the others are dependencies of n0.                       *)
(***************************************************************************)
Digit == <<"0", "1", "2", "3", "4", "5", "6", "7", "8", "9">>

RECURSIVE Decimal(_)
Decimal(i) == IF i < 10 THEN <<Digit[i + 1]>> ELSE Append(Decimal(i \div 10), Digit[(i % 10) + 1])

ImpactId(i) == <<"n">> \o Decimal(i)

ImpactFact(s, t) ==
    [source |-> ImpactId(s), target |-> ImpactId(t),
     type |-> "docker_depends_on", metadata |-> "m1"]

ImpactDeps(n, a) ==
    IF n = 1
    THEN <<ImpactFact(0, 0)>>
    ELSE [k \in 1..(n - 1) |-> IF k <= a THEN ImpactFact(k, k - 1) ELSE ImpactFact(0, k)]

NextImpact ==
    \/ phase = "idle" /\ \E n \in 1..MaxNodes : \E a \in 0..(n - 1) : NewAnalyzer(ImpactDeps(n, a))
    \/ phase = "ready" /\ \E nodeId \in QueryIds : GetBlastRadius(nodeId)
    \/ Respond

SpecImpact == Init /\ [][NextImpact]_vars

(***************************************************************************)
(* SpecAnalyze: GET /graphs/:id/analyze constructs the analyzer and asks   *)
(* it for the statistics and for the cycles (routes.ts:246-248).  The      *)
(* graphs are those of Spec, those of SpecBuild (two dependency types) and *)
(* those of SpecImpact (more than MostConnectedCount nodes).               *)
(***************************************************************************)
\* Mutant of GetStatistics: the sort is applied to this.graph.nodes itself.
GetStatisticsSortingNodes ==
    /\ phase = "ready"
    /\ phase' = "done"
    /\ request' = [op |-> "getStatistics"]
    /\ returned' = getStatistics
    /\ graph' = [graph EXCEPT !.nodes =
                    [k \in 1..Len(graph.nodes) |-> sort(nodeConnections)[k].node]]
    /\ UNCHANGED <<dependencies, adjacencyList, reverseAdjacencyList, db, deleting, run, sessions, now>>

GetStatistics ==
    /\ phase = "ready"
    /\ phase' = "done"
    /\ request' = [op |-> "getStatistics"]
    /\ returned' = getStatistics
    /\ UNCHANGED <<dependencies, graph, adjacencyList, reverseAdjacencyList, db, deleting, run, sessions, now>>

DetectCycles ==
    /\ phase = "ready"
    /\ phase' = "done"
    /\ request' = [op |-> "detectCycles"]
    /\ returned' = detectCycles
    /\ UNCHANGED <<dependencies, graph, adjacencyList, reverseAdjacencyList, db, deleting, run, sessions, now>>

NextAnalyze ==
    \/ phase = "idle" /\ \E deps \in SeqsUpTo(AnalyzerFacts, MaxDeps) : NewAnalyzer(deps)
    \/ phase = "idle" /\ \E deps \in SeqsUpTo(BuildFacts, MaxFacts) : NewAnalyzer(deps)
    \/ phase = "idle" /\ \E n \in 1..MaxNodes : \E a \in 0..(n - 1) : NewAnalyzer(ImpactDeps(n, a))
    \/ GetStatistics
    \/ DetectCycles
    \/ Respond

SpecAnalyze == Init /\ [][NextAnalyze]_vars

(***************************************************************************)
(* SpecQueries: one analyzer answers any sequence of queries.  The caller  *)
(* keeps the analyzer after an answer and calls it again, as               *)
(* routes.ts:247-248 does.                                                 *)
(***************************************************************************)
Queries == {"getBlastRadius", "findCouplingReason", "detectCycles", "getStatistics"}

NextQuery ==
    /\ phase = "done"
    /\ request.op \in Queries
    /\ phase' = "ready"
    /\ UNCHANGED <<dependencies, graph, adjacencyList, reverseAdjacencyList,
                   request, returned, db, deleting, run, sessions, now>>

NextQueries ==
    \/ phase = "idle" /\ \E deps \in SeqsUpTo(AnalyzerFacts, MaxQueryDeps) : NewAnalyzer(deps)
    \/ phase = "ready" /\ \E nodeId \in QueryIds : GetBlastRadius(nodeId)
    \/ phase = "ready" /\ \E x \in QueryIds : \E y \in QueryIds : FindCouplingReason(<<x, y>>)
    \/ GetStatistics
    \/ DetectCycles
    \/ NextQuery
    \/ Respond

SpecQueries == Init /\ [][NextQueries]_vars

(***************************************************************************)
(* GraphStorage (storage.ts).  db is the table graphs: the function from   *)
(* the primary key id to the row.  The columns created_at and updated_at   *)
(* hold clock readings and are left out, and so is the export of the       *)
(* database to its file.  Every method first awaits the initialisation, so *)
(* its statements run as a step of their own, after the caller went on.    *)
(* A JSON text is the list of the members JSON.stringify writes, in        *)
(* property order.                                                         *)
(***************************************************************************)
Null == [op |-> "null"]

\* the graph buildGraph returns (analyzer.ts:379-390), its id: uuidv4() included
graphWithId(id, deps) ==
    [id |-> id,
     name |-> buildGraph(deps).name,
     nodes |-> buildGraph(deps).nodes,
     edges |-> buildGraph(deps).edges,
     metadata |-> buildGraph(deps).metadata]

\* JSON.stringify(graph) (storage.ts:99)
stringify(g) ==
    << <<"id", g.id>>, <<"name", g.name>>, <<"nodes", g.nodes>>,
       <<"edges", g.edges>>, <<"metadata", g.metadata>> >>

member(text, key) == text[CHOOSE i \in 1..Len(text) : text[i][1] = key][2]

\* JSON.parse(...) as DependencyGraph (storage.ts:122)
parse(text) ==
    [id |-> member(text, "id"),
     name |-> member(text, "name"),
     nodes |-> member(text, "nodes"),
     edges |-> member(text, "edges"),
     metadata |-> member(text, "metadata")]

\* INSERT OR REPLACE INTO graphs (storage.ts:93-105)
insertOrReplace(table, g) ==
    mapSet(table, g.id,
           [name |-> g.name,
            graph_json |-> stringify(g),
            source_type |-> g.metadata.sourceType,
            source_path |-> g.metadata.sourcePath])

\* DELETE FROM graphs WHERE id = ? (storage.ts:177)
deleteFrom(table, id) == [x \in (DOMAIN table) \ {id} |-> table[x]]

\* loadGraph (storage.ts:113-123), once initialised
loadGraph(id) == IF id \in DOMAIN db THEN parse(db[id].graph_json) ELSE Null

(***************************************************************************)
(* Inputs of the storage specification                                     *)
(***************************************************************************)
GraphIds == {"g1", "g2"}

StorageFacts == {f \in AnalyzerFacts : {f.source, f.target} = {<<"a">>, <<"b">>}}

(***************************************************************************)
(* SpecStorage: graphs are saved and deleted while a tool handler loads    *)
(* one, constructs the analyzer on it and queries it                       *)
(* (agent/tools/analyze-blast-radius.ts:28-41).                            *)
(***************************************************************************)
\* Mutant of SaveGraph: the analyzer constructed on the graph of that id shares
\* the object that is written.
SaveGraphShared(g) ==
    /\ db' = insertOrReplace(db, g)
    /\ graph' = IF phase \in {"ready", "done"} /\ request.op # "loadGraph" /\ graph.id = g.id
                THEN g
                ELSE graph
    /\ UNCHANGED <<phase, dependencies, adjacencyList, reverseAdjacencyList,
                   request, returned, deleting, run, sessions, now>>

\* saveGraph (storage.ts:90-108), once initialised
SaveGraph(g) ==
    /\ db' = insertOrReplace(db, g)
    /\ UNCHANGED <<phase, dependencies, graph, adjacencyList, reverseAdjacencyList,
                   request, returned, deleting, run, sessions, now>>

\* deleteGraph (storage.ts:174-178), up to its await of loadGraph.  stored
\* notes whether the table held a row of that id when the DELETE ran; the
\* method itself does not look.
DeleteGraph(id) ==
    /\ deleting.status # "deleted"
    /\ db' = deleteFrom(db, id)
    /\ deleting' = [status |-> "deleted", id |-> id, stored |-> id \in DOMAIN db]
    /\ UNCHANGED <<phase, dependencies, graph, adjacencyList, reverseAdjacencyList,
                   request, returned, run, sessions, now>>

\* deleteGraph (storage.ts:181-182): the loadGraph it awaited has read the table
DeleteGraphReturn ==
    /\ deleting.status = "deleted"
    /\ deleting' = [status |-> "returned", id |-> deleting.id,
                    stored |-> deleting.stored,
                    value |-> (loadGraph(deleting.id) = Null)]
    /\ UNCHANGED <<phase, dependencies, graph, adjacencyList, reverseAdjacencyList,
                   request, returned, db, run, sessions, now>>

\* agent/tools/analyze-blast-radius.ts:28-40
LoadAnalyzer(id) ==
    /\ phase = "idle"
    /\ IF loadGraph(id) = Null
       THEN /\ phase' = "done"
            /\ request' = [op |-> "loadGraph", id |-> id]
            /\ returned' = [error |-> "Graph not found"]
            /\ UNCHANGED <<graph, adjacencyList, reverseAdjacencyList>>
       ELSE /\ phase' = "ready"
            /\ graph' = loadGraph(id)
            /\ adjacencyList' = buildAdjacencyList(graph')
            /\ reverseAdjacencyList' = buildReverseAdjacencyList(graph')
            /\ UNCHANGED <<request, returned>>
    /\ UNCHANGED <<dependencies, db, deleting, run, sessions, now>>

NextStorage ==
    \/ \E id \in GraphIds : \E deps \in SeqsUpTo(StorageFacts, MaxStoredDeps) :
          SaveGraph(graphWithId(id, deps))
    \/ \E id \in GraphIds : DeleteGraph(id)
    \/ DeleteGraphReturn
    \/ phase = "idle" /\ \E id \in GraphIds : LoadAnalyzer(id)
    \/ phase = "ready" /\ \E nodeId \in QueryIds : GetBlastRadius(nodeId)
    \/ phase = "ready" /\ \E x \in QueryIds : \E y \in QueryIds : FindCouplingReason(<<x, y>>)
    \/ GetStatistics
    \/ DetectCycles
    \/ NextQuery
    \/ Respond

SpecStorage == Init /\ [][NextStorage]_vars

(***************************************************************************)
(* SpecTraverse: the traversals of the analyzer taken one loop iteration   *)
(* at a time.  run holds the locals of the running call.  A recursion is   *)
(* the stack of its open calls, each with the index of the neighbour it    *)
(* examines next.  The field entered lists the nodes the traversal has     *)
(* enqueued or recursed into so far; the code keeps no such list, it is    *)
(* there for the properties.                                               *)
(***************************************************************************)
TraverseIds == { <<"a">>, <<"b">> }

TraverseFacts ==
    [source : TraverseIds, target : TraverseIds, type : BuildTypes, metadata : {"m1"}]

TraverseNodeIds == { <<x>> : x \in QueryIds } \cup { <<x, y>> : x \in QueryIds, y \in QueryIds }

top(stack) == stack[Len(stack)]

\* the open call on top of the stack goes on to its next neighbour
advance(stack) == [stack EXCEPT ![Len(stack)].i = @ + 1]

pop(stack) == SubSeq(stack, 1, Len(stack) - 1)

\* getBlastRadius (analyzer.ts:66-68)
BlastRadiusStart(nodeId) ==
    /\ phase = "ready"
    /\ phase' = "running"
    /\ request' = [op |-> "getBlastRadius", nodeId |-> nodeId]
    /\ run' = [fn |-> "getBlastRadius", nodeId |-> nodeId,
               affected |-> {}, queue |-> <<nodeId>>, entered |-> <<nodeId>>]
    /\ UNCHANGED <<dependencies, graph, adjacencyList, reverseAdjacencyList,
                   returned, db, deleting, sessions, now>>

\* one iteration of the while loop (analyzer.ts:71-81)
BlastRadiusLoop ==
    /\ phase = "running"
    /\ run.fn = "getBlastRadius"
    /\ Len(run.queue) > 0
    /\ LET current == Head(run.queue)
           dependents == mapGet(reverseAdjacencyList, current)
           step == visitDependents(dependents, 1, run.nodeId, run.affected, Tail(run.queue))
       IN run' = [run EXCEPT !.affected = step.affected,
                             !.queue = step.queue,
                             !.entered = @ \o SubSeq(step.queue, Len(run.queue), Len(step.queue))]
    /\ UNCHANGED <<phase, dependencies, graph, adjacencyList, reverseAdjacencyList,
                   request, returned, db, deleting, sessions, now>>

\* the queue is empty (analyzer.ts:83-109)
BlastRadiusReturn ==
    /\ phase = "running"
    /\ run.fn = "getBlastRadius"
    /\ Len(run.queue) = 0
    /\ phase' = "done"
    /\ returned' =
          LET affectedNodes == SelectSeq(graph.nodes, LAMBDA n : n.id \in run.affected)
              affectedEdges == SelectSeq(graph.edges,
                                  LAMBDA e : \/ e.source \in run.affected
                                             \/ e.target \in run.affected
                                             \/ e.target = run.nodeId)
              ratio == div(Len(affectedNodes), Len(graph.nodes))
          IN [targetNode |-> run.nodeId,
              affectedNodes |-> affectedNodes,
              affectedEdges |-> affectedEdges,
              impactLevel |-> impactLevelOf(ratio)]
    /\ UNCHANGED <<dependencies, graph, adjacencyList, reverseAdjacencyList,
                   request, db, deleting, run, sessions, now>>

\* the locals of collectAllDependencies / collectAllDependents called on
\* nodeIds[k] with a new Set (analyzer.ts:124-128, 135-139)
collecting(r, pass, k) ==
    [r EXCEPT !.pass = pass,
              !.k = k,
              !.stack = << [nodeId |-> r.nodeIds[k], i |-> 1] >>,
              !.result = <<>>,
              !.entered = <<>>]

\* findCouplingReason (analyzer.ts:114-128)
CouplingStart(nodeIds) ==
    /\ phase = "ready"
    /\ request' = [op |-> "findCouplingReason", nodeIds |-> nodeIds]
    /\ IF tooFewNodeIds(nodeIds)
       THEN /\ phase' = "done"
            /\ returned' = [nodes |-> nodeIds,
                            sharedDependencies |-> <<>>,
                            couplingStrength |-> Zero,
                            reasons |-> <<NeedTwo>>]
            /\ run' = [fn |-> "findCouplingReason", nodeIds |-> nodeIds,
                       pass |-> "none", k |-> 0, sets |-> <<>>, dependencySets |-> <<>>,
                       stack |-> <<>>, result |-> <<>>, entered |-> <<>>]
       ELSE /\ phase' = "running"
            /\ returned' = returned
            /\ run' = collecting([fn |-> "findCouplingReason", nodeIds |-> nodeIds,
                                  pass |-> "none", k |-> 0, sets |-> <<>>,
                                  dependencySets |-> <<>>,
                                  stack |-> <<>>, result |-> <<>>, entered |-> <<>>],
                                 "dependencies", 1)
    /\ UNCHANGED <<dependencies, graph, adjacencyList, reverseAdjacencyList,
                   db, deleting, sessions, now>>

\* one iteration of the for loop of the open call on top, or its return
\* (analyzer.ts:240-248, 253-261)
CouplingLoop ==
    /\ phase = "running"
    /\ run.fn = "findCouplingReason"
    /\ Len(run.stack) > 0
    /\ LET call == top(run.stack)
           deps == IF run.pass = "dependencies"
                   THEN mapGet(adjacencyList, call.nodeId)
                   ELSE mapGet(reverseAdjacencyList, call.nodeId)
       IN IF call.i > Len(deps)
          THEN run' = [run EXCEPT !.stack = pop(@)]
          ELSE IF ~setHas(run.result, deps[call.i])
          THEN run' = [run EXCEPT !.result = Append(@, deps[call.i]),
                                  !.stack = Append(advance(@), [nodeId |-> deps[call.i], i |-> 1]),
                                  !.entered = Append(@, deps[call.i])]
          ELSE run' = [run EXCEPT !.stack = advance(@)]
    /\ UNCHANGED <<phase, dependencies, graph, adjacencyList, reverseAdjacencyList,
                   request, returned, db, deleting, sessions, now>>

\* a collect call has returned: nodeIds.map goes on to the next id, or the
\* dependents are collected after the dependencies (analyzer.ts:124-139)
CouplingNext ==
    /\ phase = "running"
    /\ run.fn = "findCouplingReason"
    /\ Len(run.stack) = 0
    /\ ~(run.pass = "dependents" /\ run.k = Len(run.nodeIds))
    /\ LET collected == [run EXCEPT !.sets = Append(@, run.result)]
       IN run' = IF run.k < Len(run.nodeIds)
                 THEN collecting(collected, run.pass, run.k + 1)
                 ELSE collecting([collected EXCEPT !.dependencySets = collected.sets,
                                                   !.sets = <<>>],
                                 "dependents", 1)
    /\ UNCHANGED <<phase, dependencies, graph, adjacencyList, reverseAdjacencyList,
                   request, returned, db, deleting, sessions, now>>

\* the last collect call has returned (analyzer.ts:130-131, 141-186)
CouplingReturn ==
    /\ phase = "running"
    /\ run.fn = "findCouplingReason"
    /\ Len(run.stack) = 0
    /\ run.pass = "dependents"
    /\ run.k = Len(run.nodeIds)
    /\ phase' = "done"
    /\ returned' =
          LET sharedDeps == intersectSets(run.dependencySets)
              sharedDependencies ==
                  SelectSeq(graph.nodes, LAMBDA n : setHas(sharedDeps, n.id))
              sharedDependents == intersectSets(Append(run.sets, run.result))
          IN [nodes |-> run.nodeIds,
              sharedDependencies |-> sharedDependencies,
              couplingStrength |-> couplingStrengthOf(sharedDependencies, sharedDependents),
              reasons |-> reasonsOf(run.nodeIds, sharedDependencies, sharedDependents)]
    /\ UNCHANGED <<dependencies, graph, adjacencyList, reverseAdjacencyList,
                   request, db, deleting, run, sessions, now>>

\* dfs is called on nodeId (analyzer.ts:198-201)
enter(nodeId, r) ==
    [r EXCEPT !.st = [@ EXCEPT !.visited = @ \cup {nodeId},
                               !.recStack = @ \cup {nodeId},
                               !.path = Append(@, nodeId)],
              !.stack = Append(@, [nodeId |-> nodeId, i |-> 1]),
              !.entered = Append(@, nodeId)]

\* Mutant of leave: the node stays on the recursion stack.
leaveOnRecStack(r) ==
    [r EXCEPT !.st = [@ EXCEPT !.path = SubSeq(@, 1, Len(@) - 1)],
              !.stack = pop(@)]

\* the dfs call on top returns (analyzer.ts:222-223)
leave(r) ==
    [r EXCEPT !.st = [@ EXCEPT !.path = SubSeq(@, 1, Len(@) - 1),
                               !.recStack = @ \ {top(r.stack).nodeId}],
              !.stack = pop(@)]

\* detectCycles (analyzer.ts:192-196)
CyclesStart ==
    /\ phase = "ready"
    /\ phase' = "running"
    /\ request' = [op |-> "detectCycles"]
    /\ run' = [fn |-> "detectCycles", st |-> noCycles, root |-> 1,
               stack |-> <<>>, entered |-> <<>>]
    /\ UNCHANGED <<dependencies, graph, adjacencyList, reverseAdjacencyList,
                   returned, db, deleting, sessions, now>>

\* one iteration of the loop over the roots (analyzer.ts:225-229) when no dfs
\* call is open, else one iteration of the loop of the dfs call on top, or
\* its return (analyzer.ts:203-223)
CyclesLoop ==
    /\ phase = "running"
    /\ run.fn = "detectCycles"
    /\ Len(run.stack) > 0 \/ run.root <= Len(graph.nodes)
    /\ IF Len(run.stack) = 0
       THEN LET id == graph.nodes[run.root].id
                next == [run EXCEPT !.root = @ + 1]
            IN run' = IF id \notin run.st.visited THEN enter(id, next) ELSE next
       ELSE LET call == top(run.stack)
                neighbors == mapGet(adjacencyList, call.nodeId)
                next == [run EXCEPT !.stack = advance(@)]
            IN IF call.i > Len(neighbors)
               THEN run' = leave(run)
               ELSE IF neighbors[call.i] \notin run.st.visited
               THEN run' = enter(neighbors[call.i], next)
               ELSE IF neighbors[call.i] \in run.st.recStack
               THEN run' = [next EXCEPT !.st = foundCycle(neighbors[call.i], @)]
               ELSE run' = next
    /\ UNCHANGED <<phase, dependencies, graph, adjacencyList, reverseAdjacencyList,
                   request, returned, db, deleting, sessions, now>>

\* every root has been looked at (analyzer.ts:231-234)
CyclesReturn ==
    /\ phase = "running"
    /\ run.fn = "detectCycles"
    /\ Len(run.stack) = 0
    /\ run.root > Len(graph.nodes)
    /\ phase' = "done"
    /\ returned' = [cycles |-> run.st.cycles,
                    severity |-> IF Len(run.st.cycles) > 0 THEN "error" ELSE "warning"]
    /\ UNCHANGED <<dependencies, graph, adjacencyList, reverseAdjacencyList,
                   request, db, deleting, run, sessions, now>>

\* the running call goes on: the code is synchronous and runs to its return
Running ==
    \/ BlastRadiusLoop
    \/ BlastRadiusReturn
    \/ CouplingLoop
    \/ CouplingNext
    \/ CouplingReturn
    \/ CyclesLoop
    \/ CyclesReturn

NextTraverse ==
    \/ phase = "idle" /\ \E deps \in SeqsUpTo(TraverseFacts, MaxTraverseDeps) : NewAnalyzer(deps)
    \/ phase = "ready" /\ \E nodeId \in QueryIds : BlastRadiusStart(nodeId)
    \/ phase = "ready" /\ \E nodeIds \in TraverseNodeIds : CouplingStart(nodeIds)
    \/ CyclesStart
    \/ Running
    \/ Respond

SpecTraverse == Init /\ [][NextTraverse]_vars /\ WF_vars(Running)

(***************************************************************************)
(* SessionManager (unnamed/part_008).  sessions is the Map from session id *)
(* to UserSession, as the sequence of its values in insertion order; now   *)
(* is what new Date().getTime() reads.  A call runs in one piece, so every *)
(* new Date() of one call reads the same now.  createdAt and the timestamp *)
(* of a message are written and never read; they are left out.  A graphId *)
(* is a string, the token "null" for null or "undefined" for a missing     *)
(* argument.                                                               *)
(***************************************************************************)
sessionTimeout == 30 * 60 * 1000

Void == [op |-> "undefined"]

\* the place of sessionId in the Map, 0 when it has no such key
sessionAt(sessionId) ==
    LET at == {k \in 1..Len(sessions) : sessions[k].id = sessionId}
    IN IF at = {} THEN 0 ELSE CHOOSE k \in at : TRUE

\* this.sessions.delete(id)
sessionsDelete(map, id) == SelectSeq(map, LAMBDA session : session.id # id)

\* Mutant of expired: a session expires as soon as the timeout has passed.
expiredAtTimeout(session) == now - session.lastActivity >= sessionTimeout

\* part_008:54 and 142
expired(session) == now - session.lastActivity > sessionTimeout

\* part_008:72
active(session) == now - session.lastActivity < sessionTimeout

\* graphId || null (part_008:32)
orNull(graphId) == IF graphId \in {"undefined", ""} THEN "null" ELSE graphId

\* getSession (part_008:45-62): the Map after the call and the value returned
getSession(sessionId) ==
    LET k == sessionAt(sessionId)
    IN IF k = 0
       THEN [sessions |-> sessions, value |-> Null]
       ELSE IF expired(sessions[k])
       THEN [sessions |-> sessionsDelete(sessions, sessionId), value |-> Null]
       ELSE [sessions |-> [sessions EXCEPT ![k].lastActivity = now],
             value |-> [sessions[k] EXCEPT !.lastActivity = now]]

\* createSession (part_008:28-40) when uuidv4() gives id
createSession(id, userId, graphId) ==
    [id |-> id,
     userId |-> userId,
     graphId |-> orNull(graphId),
     conversationHistory |-> <<>>,
     lastActivity |-> now]

\* cleanup (part_008:137-149): the sessions that stay
cleanup == SelectSeq(sessions, LAMBDA session : ~expired(session))

(***************************************************************************)
(* Inputs of the session specification.  uuidv4() gives an id that is not  *)
(* a key of the Map.                                                       *)
(***************************************************************************)
SessionIds == {"s1", "s2"}
UserIds == {"u1", "u2"}
GraphIdArgs == {"undefined", "g1"}
Roles == {"user"}
Contents == {"hello"}

\* the clock readings: 0, and each multiple of the timeout and 1 ms after it
Instants == {0} \cup UNION { {k * sessionTimeout, k * sessionTimeout + 1} : k \in 1..MaxPeriods }

UnusedIds == {id \in SessionIds : sessionAt(id) = 0}

(***************************************************************************)
(* SpecSessions: calls on the SessionManager singleton (part_008:160),     *)
(* interleaved with the passage of time.                                   *)
(***************************************************************************)
SessionCall(call, value, map) ==
    /\ phase = "idle"
    /\ phase' = "done"
    /\ request' = call
    /\ returned' = value
    /\ sessions' = map
    /\ UNCHANGED <<dependencies, graph, adjacencyList, reverseAdjacencyList,
                   db, deleting, run, now>>

CreateSession(id, userId, graphId) ==
    SessionCall([op |-> "createSession", userId |-> userId, graphId |-> graphId],
                createSession(id, userId, graphId),
                Append(sessions, createSession(id, userId, graphId)))

GetSession(sessionId) ==
    SessionCall([op |-> "getSession", sessionId |-> sessionId],
                getSession(sessionId).value,
                getSession(sessionId).sessions)

\* getOrCreateSession (part_008:67-83); id is what uuidv4() gives if it is called
GetOrCreateSession(id, userId, graphId) ==
    LET found == {k \in 1..Len(sessions) :
                      sessions[k].userId = userId /\ active(sessions[k])}
        k == CHOOSE i \in found : \A j \in found : i <= j
        session == [sessions[k] EXCEPT !.lastActivity = now,
                                       !.graphId = IF graphId \in {"undefined", ""}
                                                   THEN @ ELSE graphId]
    IN SessionCall([op |-> "getOrCreateSession", userId |-> userId, graphId |-> graphId],
                   IF found # {} THEN session ELSE createSession(id, userId, graphId),
                   IF found # {}
                   THEN [sessions EXCEPT ![k] = session]
                   ELSE Append(sessions, createSession(id, userId, graphId)))

\* addMessage (part_008:88-97)
AddMessage(sessionId, role, content) ==
    LET got == getSession(sessionId)
    IN SessionCall([op |-> "addMessage", sessionId |-> sessionId,
                    role |-> role, content |-> content],
                   Void,
                   IF got.value # Null
                   THEN [got.sessions EXCEPT ![sessionAt(sessionId)].conversationHistory =
                            Append(@, [role |-> role, content |-> content])]
                   ELSE got.sessions)

\* setActiveGraph (part_008:102-107)
SetActiveGraph(sessionId, graphId) ==
    LET got == getSession(sessionId)
    IN SessionCall([op |-> "setActiveGraph", sessionId |-> sessionId, graphId |-> graphId],
                   Void,
                   IF got.value # Null
                   THEN [got.sessions EXCEPT ![sessionAt(sessionId)].graphId = graphId]
                   ELSE got.sessions)

\* clearHistory (part_008:120-125)
ClearHistory(sessionId) ==
    LET got == getSession(sessionId)
    IN SessionCall([op |-> "clearHistory", sessionId |-> sessionId],
                   Void,
                   IF got.value # Null
                   THEN [got.sessions EXCEPT ![sessionAt(sessionId)].conversationHistory = <<>>]
                   ELSE got.sessions)

\* deleteSession (part_008:130-132)
DeleteSession(sessionId) ==
    SessionCall([op |-> "deleteSession", sessionId |-> sessionId],
                [value |-> sessionAt(sessionId) # 0],
                sessionsDelete(sessions, sessionId))

\* cleanup (part_008:137-149)
Cleanup ==
    /\ phase = "idle"
    /\ SessionCall([op |-> "cleanup"],
                   [value |-> Len(sessions) - Len(cleanup)],
                   cleanup)

\* time passes between two calls
Tick(instant) ==
    /\ phase = "idle"
    /\ instant > now
    /\ now' = instant
    /\ UNCHANGED <<phase, dependencies, graph, adjacencyList, reverseAdjacencyList,
                   request, returned, db, deleting, run, sessions>>

\* the history of the session a message goes to has room for it
HasRoom(sessionId) ==
    sessionAt(sessionId) # 0 =>
        Len(sessions[sessionAt(sessionId)].conversationHistory) < MaxMessages

NextSessions ==
    \/ phase = "idle" /\ \E id \in UnusedIds : \E userId \in UserIds :
          \E graphId \in GraphIdArgs : CreateSession(id, userId, graphId)
    \/ phase = "idle" /\ \E sessionId \in SessionIds : GetSession(sessionId)
    \/ phase = "idle" /\ \E id \in UnusedIds : \E userId \in UserIds :
          \E graphId \in GraphIdArgs : GetOrCreateSession(id, userId, graphId)
    \/ phase = "idle" /\ \E sessionId \in SessionIds : \E role \in Roles :
          \E content \in Contents : HasRoom(sessionId) /\ AddMessage(sessionId, role, content)
    \/ phase = "idle" /\ \E sessionId \in SessionIds : SetActiveGraph(sessionId, "g1")
    \/ phase = "idle" /\ \E sessionId \in SessionIds : ClearHistory(sessionId)
    \/ phase = "idle" /\ \E sessionId \in SessionIds : DeleteSession(sessionId)
    \/ Cleanup
    \/ \E instant \in Instants : Tick(instant)
    \/ Respond

SpecSessions == Init /\ [][NextSessions]_vars

(***************************************************************************)
(* Graph vocabulary of the properties: reachability stated as least fixed  *)
(* points over the edge relation, independently of the traversals above.   *)
(***************************************************************************)
EdgePairs == {<<graph.edges[i].source, graph.edges[i].target>> : i \in 1..Len(graph.edges)}

Pred(S) == {p[1] : p \in {q \in EdgePairs : q[2] \in S}}

Succ(S) == {p[2] : p \in {q \in EdgePairs : q[1] \in S}}

RECURSIVE UpClosure(_)
UpClosure(S) == IF Pred(S) \subseteq S THEN S ELSE UpClosure(S \cup Pred(S))

RECURSIVE DownClosure(_)
DownClosure(S) == IF Succ(S) \subseteq S THEN S ELSE DownClosure(S \cup Succ(S))

\* the nodes from which x is reachable by a non-empty chain of edges
Dependents(x) == UpClosure(Pred({x}))

\* the nodes reachable from x by a non-empty chain of edges
Dependencies(x) == DownClosure(Succ({x}))

ClosedGraph ==
    \A i \in 1..Len(graph.edges) :
        graph.edges[i].source \in nodeIdsOf(graph) /\ graph.edges[i].target \in nodeIdsOf(graph)

IdsOf(nodes) == {nodes[i].id : i \in 1..Len(nodes)}

\* seq lists exactly the members of all at the indices in I, in their order in all
IsSublistAt(seq, all, I) ==
    /\ Len(seq) = Cardinality(I)
    /\ \A i \in I : seq[Cardinality({j \in I : j <= i})] = all[i]

BlastRadiusReturned == phase = "done" /\ request.op = "getBlastRadius"

CouplingReturned == phase = "done" /\ request.op = "findCouplingReason"

(***************************************************************************)
(* C1: on a graph whose edges reference only its own nodes,                *)
(* getBlastRadius(nodeId).affectedNodes is exactly the set of nodes from   *)
(* which nodeId is reachable by a non-empty chain of edges, minus nodeId;  *)
(* nodeId is never among them, and a node without inbound edges has an     *)
(* empty affected set.                                                     *)
(***************************************************************************)
C1_AffectedNodesAreTheDependents ==
    (BlastRadiusReturned /\ ClosedGraph) =>
        LET A == Dependents(request.nodeId) \ {request.nodeId}
        IN /\ IdsOf(returned.affectedNodes) = A
           /\ IsSublistAt(returned.affectedNodes, graph.nodes,
                          {i \in 1..Len(graph.nodes) : graph.nodes[i].id \in A})
           /\ request.nodeId \notin IdsOf(returned.affectedNodes)
           /\ (Pred({request.nodeId}) = {} => returned.affectedNodes = <<>>)

\* the node asked about lies on a cycle through another node
C1_Witness ==
    /\ BlastRadiusReturned
    /\ \E y \in Dependents(request.nodeId) :
          y # request.nodeId /\ request.nodeId \in Dependents(y)
    /\ Len(returned.affectedNodes) >= 1

(***************************************************************************)
(* C2: getBlastRadius(nodeId).affectedEdges is exactly the list of graph   *)
(* edges, in graph edge order, whose source is affected, or whose target   *)
(* is affected, or whose target is nodeId.                                 *)
(***************************************************************************)
C2_AffectedEdges ==
    BlastRadiusReturned =>
        LET A == Dependents(request.nodeId) \ {request.nodeId}
        IN IsSublistAt(returned.affectedEdges, graph.edges,
                       {i \in 1..Len(graph.edges) :
                            \/ graph.edges[i].source \in A
                            \/ graph.edges[i].target \in A
                            \/ graph.edges[i].target = request.nodeId})

\* a self-loop on nodeId is listed, some edge is not, and some node is affected
C2_Witness ==
    /\ BlastRadiusReturned
    /\ \E i \in 1..Len(returned.affectedEdges) :
          /\ returned.affectedEdges[i].source = request.nodeId
          /\ returned.affectedEdges[i].target = request.nodeId
    /\ Len(returned.affectedEdges) < Len(graph.edges)
    /\ Len(returned.affectedNodes) >= 1

(***************************************************************************)
(* C3: with n >= 1 nodes and a affected nodes, impactLevel is 'critical'   *)
(* iff 2a > n, 'high' iff 4a > n and 2a <= n, 'medium' iff 10a > n and     *)
(* 4a <= n, and 'low' otherwise; so the ratios 0.5, 0.25 and 0.1 yield     *)
(* 'high', 'medium' and 'low'.                                             *)
(***************************************************************************)
C3_ImpactLevelBands ==
    (BlastRadiusReturned /\ Len(graph.nodes) >= 1) =>
        LET n == Len(graph.nodes)
            a == Len(returned.affectedNodes)
        IN /\ (returned.impactLevel = "critical") <=> (2 * a > n)
           /\ (returned.impactLevel = "high") <=> (4 * a > n /\ 2 * a <= n)
           /\ (returned.impactLevel = "medium") <=> (10 * a > n /\ 4 * a <= n)
           /\ (returned.impactLevel = "low") <=> (10 * a <= n)
           /\ (2 * a = n => returned.impactLevel = "high")
           /\ (4 * a = n => returned.impactLevel = "medium")
           /\ (10 * a = n => returned.impactLevel = "low")

\* one affected node out of ten: the ratio is exactly 0.1
C3_Witness ==
    /\ BlastRadiusReturned
    /\ Len(returned.affectedNodes) = 1
    /\ Len(graph.nodes) = 10
    /\ returned.impactLevel = "low"

(***************************************************************************)
(* C4: a query with an id that is no node of the graph returns the         *)
(* degenerate result: getBlastRadius gives no affected nodes, no affected  *)
(* edges and 'low' (also on a graph without nodes); findCouplingReason     *)
(* with two or more ids, one of them absent, gives no shared dependencies  *)
(* and couplingStrength 0.                                                 *)
(***************************************************************************)
C4_AbsentIdIsDegenerate ==
    /\ (BlastRadiusReturned /\ request.nodeId \notin nodeIdsOf(graph)) =>
          /\ returned.affectedNodes = <<>>
          /\ returned.affectedEdges = <<>>
          /\ returned.impactLevel = "low"
    /\ (/\ CouplingReturned
        /\ Len(request.nodeIds) >= 2
        /\ \E k \in 1..Len(request.nodeIds) : request.nodeIds[k] \notin nodeIdsOf(graph)) =>
          /\ returned.sharedDependencies = <<>>
          /\ returned.couplingStrength = Zero

\* an absent id is asked about on the graph without nodes
C4_Witness ==
    /\ BlastRadiusReturned
    /\ Len(graph.nodes) = 0
    /\ request.nodeId \notin nodeIdsOf(graph)
    /\ returned.impactLevel = "low"

(***************************************************************************)
(* Vocabulary of the builder's properties                                  *)
(***************************************************************************)
BuildReturned == phase = "done" /\ request.op = "buildGraph"

Mentions(k, id) == dependencies[k].source = id \/ dependencies[k].target = id

FactIds == {dependencies[k].source : k \in 1..Len(dependencies)}
               \cup {dependencies[k].target : k \in 1..Len(dependencies)}

TripleOf(x) == <<x.source, x.target, x.type>>

Triples == {TripleOf(dependencies[k]) : k \in 1..Len(dependencies)}

Least(S) == CHOOSE i \in S : \A j \in S : i <= j

\* the first fact that mentions id
FirstMention(id) == Least({k \in 1..Len(dependencies) : Mentions(k, id)})

\* the first fact with the triple t
FirstFact(t) == Least({k \in 1..Len(dependencies) : TripleOf(dependencies[k]) = t})

\* position of id's first occurrence, source before target within one fact
FirstSeen(id) ==
    Least({2 * k - 1 : k \in {j \in 1..Len(dependencies) : dependencies[j].source = id}}
          \cup {2 * k : k \in {j \in 1..Len(dependencies) : dependencies[j].target = id}})

\* every fact twice
Duplicated(deps) == [k \in 1..(2 * Len(deps)) |-> deps[(k + 1) \div 2]]

\* an edge without its generated id
Bare(e) == [source |-> e.source, target |-> e.target, type |-> e.type, metadata |-> e.metadata]

(***************************************************************************)
(* C5: for every facts list, the empty one and those with self-loops       *)
(* included, in the graph of buildGraph every edge's source and target is  *)
(* the id of a node, no two nodes share an id, and every source and target *)
(* id of the facts is the id of exactly one node.                          *)
(***************************************************************************)
C5_BuiltGraphIsWellFormed ==
    BuildReturned =>
        /\ ClosedGraph
        /\ \A i, j \in 1..Len(graph.nodes) : graph.nodes[i].id = graph.nodes[j].id => i = j
        /\ \A id \in FactIds :
              Cardinality({i \in 1..Len(graph.nodes) : graph.nodes[i].id = id}) = 1
        /\ (dependencies = <<>> => graph.nodes = <<>> /\ graph.edges = <<>>)

\* two facts, one of them a self-loop, that share an id
C5_Witness ==
    /\ BuildReturned
    /\ Len(dependencies) = 2
    /\ dependencies[1].source = dependencies[1].target
    /\ dependencies[2].source # dependencies[2].target
    /\ Mentions(2, dependencies[1].source)
    /\ Len(graph.nodes) = 2

(***************************************************************************)
(* C6: buildGraph emits exactly one edge per distinct (source, target,     *)
(* kind) triple of the facts: two facts collapse into one edge if and only *)
(* if they agree on source, target and kind; the edge carries the metadata *)
(* of the first fact with its triple; duplicating every fact leaves the    *)
(* nodes and the edges unchanged.                                          *)
(***************************************************************************)
C6_OneEdgePerTriple ==
    BuildReturned =>
        /\ Len(graph.edges) = Cardinality(Triples)
        /\ \A t \in Triples :
              \E i \in 1..Len(graph.edges) :
                  /\ TripleOf(graph.edges[i]) = t
                  /\ graph.edges[i].metadata = dependencies[FirstFact(t)].metadata
        /\ buildGraph(Duplicated(dependencies)).nodes = graph.nodes
        /\ [i \in 1..Len(graph.edges) |-> Bare(graph.edges[i])]
              = [i \in 1..Len(buildGraph(Duplicated(dependencies)).edges) |->
                    Bare(buildGraph(Duplicated(dependencies)).edges[i])]

(***************************************************************************)
(* C7: the type of each node is the type inferred from its id and the kind *)
(* of the first fact that mentions the id as source or target; later facts *)
(* that mention the id under another kind change neither type nor name.    *)
(***************************************************************************)
C7_FirstKindWins ==
    BuildReturned =>
        \A i \in 1..Len(graph.nodes) :
            /\ graph.nodes[i].type
                  = inferNodeType(graph.nodes[i].id,
                                  dependencies[FirstMention(graph.nodes[i].id)].type)
            /\ graph.nodes[i].name = extractNodeName(graph.nodes[i].id)

\* an id is mentioned first under one kind and later under a kind that would
\* give it another type
C7_Witness ==
    /\ BuildReturned
    /\ \E id \in FactIds : \E k \in 1..Len(dependencies) :
          /\ Mentions(k, id)
          /\ inferNodeType(id, dependencies[k].type)
                # inferNodeType(id, dependencies[FirstMention(id)].type)

C9_FewerThanTwoIds ==
    (CouplingReturned /\ Len(request.nodeIds) < 2) =>
        /\ returned.nodes = request.nodeIds
        /\ returned.sharedDependencies = <<>>
        /\ returned.couplingStrength = Zero
        /\ returned.reasons = <<NeedTwo>>

\* one id is given, a node that has dependencies and dependents
C9_Witness ==
    /\ CouplingReturned
    /\ Len(request.nodeIds) = 1
    /\ Dependencies(request.nodeIds[1]) # {}
    /\ Dependents(request.nodeIds[1]) # {}
    /\ returned.reasons = <<NeedTwo>>

(***************************************************************************)
(* C10: for two or more ids, sharedDependencies is exactly the list, in    *)
(* graph node order, of the nodes reachable from every input id by a       *)
(* non-empty chain of forward edges; an input node is in its own closure   *)
(* only if it lies on a cycle.                                             *)
(***************************************************************************)
C10_SharedDependencies ==
    (CouplingReturned /\ Len(request.nodeIds) >= 2) =>
        /\ LET closures == [k \in 1..Len(request.nodeIds) |-> Dependencies(request.nodeIds[k])]
           IN IsSublistAt(returned.sharedDependencies, graph.nodes,
                 {i \in 1..Len(graph.nodes) :
                     \A k \in 1..Len(request.nodeIds) : graph.nodes[i].id \in closures[k]})
        /\ \A k \in 1..Len(request.nodeIds) :
              LET closure == collectAllDependencies(request.nodeIds[k], <<>>)
              IN /\ {closure[i] : i \in 1..Len(closure)} = Dependencies(request.nodeIds[k])
                 /\ setHas(closure, request.nodeIds[k])
                       => \E y \in Succ({request.nodeIds[k]}) :
                             request.nodeIds[k] \in DownClosure({y})

\* two different nodes share a dependency that one of them does not reach alone,
\* and one of the two lies on a cycle and is itself shared
C10_Witness ==
    /\ CouplingReturned
    /\ Len(request.nodeIds) = 2
    /\ request.nodeIds[1] # request.nodeIds[2]
    /\ request.nodeIds[1] \in IdsOf(returned.sharedDependencies)
    /\ Dependencies(request.nodeIds[1]) # Dependencies(request.nodeIds[2])

(***************************************************************************)
(* Vocabulary of the coupling claims: the ids every input id reaches, the  *)
(* ids that reach every input id, and the index pairs joined by an edge.   *)
(***************************************************************************)
SharedDependencyIds ==
    {x \in nodeIdsOf(graph) :
        \A k \in 1..Len(request.nodeIds) : x \in Dependencies(request.nodeIds[k])}

SharedDependentIds ==
    {x \in nodeIdsOf(graph) :
        \A k \in 1..Len(request.nodeIds) : x \in Dependents(request.nodeIds[k])}

Joined(x, y) == <<x, y>> \in EdgePairs \/ <<y, x>> \in EdgePairs

JoinedPairs ==
    {p \in (1..Len(request.nodeIds)) \X (1..Len(request.nodeIds)) :
        p[1] < p[2] /\ Joined(request.nodeIds[p[1]], request.nodeIds[p[2]])}

\* the pairs of JoinedPairs up to p, by first index and then second index
PairsUpTo(p) ==
    {q \in JoinedPairs : q[1] < p[1] \/ (q[1] = p[1] /\ q[2] <= p[2])}

DirectLine(p) ==
    <<"Direct dependency between ">> \o request.nodeIds[p[1]]
        \o <<" and ">> \o request.nodeIds[p[2]]

One == div(1, 1)

(***************************************************************************)
(* C11: for two or more input ids, couplingStrength is (number of shared   *)
(* dependencies + number of shared dependents) / number of graph nodes,    *)
(* the shared dependents being the intersection of the upstream closures   *)
(* of the input ids; it is 0 when the graph has no nodes.                  *)
(***************************************************************************)
C11_CouplingStrength ==
    (CouplingReturned /\ Len(request.nodeIds) >= 2) =>
        returned.couplingStrength =
            IF Len(graph.nodes) = 0
            THEN Zero
            ELSE div(Cardinality(SharedDependencyIds) + Cardinality(SharedDependentIds),
                     Len(graph.nodes))

\* both counts are positive and differ, so each of them shows in the quotient
C11_Witness ==
    /\ CouplingReturned
    /\ Len(request.nodeIds) >= 2
    /\ SharedDependencyIds # {}
    /\ SharedDependentIds # {}
    /\ Cardinality(SharedDependencyIds) # Cardinality(SharedDependentIds)
    /\ returned.couplingStrength # Zero

(***************************************************************************)
(* C12: couplingStrength is not clamped to [0,1]: whenever the shared      *)
(* dependencies plus the shared dependents outnumber the nodes, the value  *)
(* returned is greater than 1, and there are such graphs and id lists.     *)
(***************************************************************************)
C12_StrengthAboveOne ==
    (/\ CouplingReturned
     /\ Len(request.nodeIds) >= 2
     /\ Cardinality(SharedDependencyIds) + Cardinality(SharedDependentIds)
            > Len(graph.nodes)) =>
        gt(returned.couplingStrength, One)

\* a graph and an id list whose coupling strength is above 1
C12_Witness ==
    /\ CouplingReturned
    /\ Len(request.nodeIds) >= 2
    /\ Cardinality(SharedDependencyIds) + Cardinality(SharedDependentIds)
            > Len(graph.nodes)
    /\ gt(returned.couplingStrength, One)

C14_NoCouplingFallback ==
    (CouplingReturned /\ Len(request.nodeIds) >= 2) =>
        /\ Len(returned.reasons) > 0
        /\ returned.reasons = <<NoCoupling>>
              <=> /\ SharedDependencyIds = {}
                  /\ SharedDependentIds = {}
                  /\ JoinedPairs = {}
        /\ returned.reasons = <<NoCoupling>> => returned.couplingStrength = Zero

\* two different nodes of the graph that are not coupled
C14_Witness ==
    /\ CouplingReturned
    /\ Len(request.nodeIds) = 2
    /\ request.nodeIds[1] # request.nodeIds[2]
    /\ {request.nodeIds[1], request.nodeIds[2]} \subseteq nodeIdsOf(graph)
    /\ returned.reasons = <<NoCoupling>>
    /\ returned.couplingStrength = Zero

(***************************************************************************)
(* Vocabulary of the claims about detectCycles and getStatistics           *)
(***************************************************************************)
CyclesReturned == phase = "done" /\ request.op = "detectCycles"

StatisticsReturned == phase = "done" /\ request.op = "getStatistics"

\* some id is reachable from itself by a non-empty chain of edges
HasCycle == \E p \in EdgePairs : p[1] \in Dependencies(p[1])

Inbound(i) == Cardinality({e \in 1..Len(graph.edges) : graph.edges[e].target = graph.nodes[i].id})

Outbound(i) == Cardinality({e \in 1..Len(graph.edges) : graph.edges[e].source = graph.nodes[i].id})

Degree(i) == Inbound(i) + Outbound(i)

\* node i is listed before node j: higher degree first, graph order among equals
ListedBefore(i, j) == Degree(i) > Degree(j) \/ (Degree(i) = Degree(j) /\ i < j)

RankOf(i) == Cardinality({j \in 1..Len(graph.nodes) : ListedBefore(j, i)}) + 1

RECURSIVE SumOf(_)
SumOf(counts) ==
    IF DOMAIN counts = {}
    THEN 0
    ELSE LET k == CHOOSE x \in DOMAIN counts : TRUE
         IN counts[k] + SumOf([x \in (DOMAIN counts) \ {k} |-> counts[x]])

\* counts is the histogram of the field type over items
IsHistogram(counts, items) ==
    /\ DOMAIN counts = {items[i].type : i \in 1..Len(items)}
    /\ \A t \in DOMAIN counts :
          counts[t] = Cardinality({i \in 1..Len(items) : items[i].type = t})
    /\ SumOf(counts) = Len(items)

(***************************************************************************)
(* C15: detectCycles returns a non-empty cycles list with severity 'error' *)
(* iff the graph contains a directed cycle (a self-loop is one); for every *)
(* acyclic graph it returns no cycles and severity 'warning'.              *)
(***************************************************************************)
C15_CyclesIffCyclic ==
    CyclesReturned =>
        /\ (returned.cycles # <<>> /\ returned.severity = "error") <=> HasCycle
        /\ ~HasCycle => (returned.cycles = <<>> /\ returned.severity = "warning")

\* a cycle that is no self-loop, in a graph whose first node is on no cycle
C15_Witness ==
    /\ CyclesReturned
    /\ returned.severity = "error"
    /\ \A p \in EdgePairs : p[1] # p[2]
    /\ graph.nodes[1].id \notin Dependencies(graph.nodes[1].id)

(***************************************************************************)
(* C20: getStatistics returns totalNodes and totalEdges equal to the sizes *)
(* of the node and edge lists, the histograms of node types and of edge    *)
(* kinds, whose counts sum to those totals, and mostConnected holding      *)
(* min(5, number of nodes) entries by inbound + outbound degree            *)
(* descending, nodes of equal degree in graph order, so that no omitted    *)
(* node has a higher degree than an included one.                          *)
(***************************************************************************)
C20_Statistics ==
    StatisticsReturned =>
        /\ returned.totalNodes = Len(graph.nodes)
        /\ returned.totalEdges = Len(graph.edges)
        /\ IsHistogram(returned.nodeTypes, graph.nodes)
        /\ IsHistogram(returned.edgeTypes, graph.edges)
        /\ Len(returned.mostConnected) =
              IF Len(graph.nodes) < 5 THEN Len(graph.nodes) ELSE 5
        /\ \A i \in 1..Len(graph.nodes) :
              IF RankOf(i) <= 5
              THEN returned.mostConnected[RankOf(i)] =
                      [node |-> graph.nodes[i],
                       inbound |-> Inbound(i),
                       outbound |-> Outbound(i)]
              ELSE \A k \in 1..Len(returned.mostConnected) :
                      /\ returned.mostConnected[k].node # graph.nodes[i]
                      /\ returned.mostConnected[k].inbound + returned.mostConnected[k].outbound
                            >= Degree(i)

\* more than five nodes, the most connected one is not the first of the graph,
\* and an omitted node has the degree of the last one listed
C20_Witness ==
    /\ StatisticsReturned
    /\ Len(graph.nodes) > 5
    /\ Len(returned.mostConnected) = 5
    /\ returned.mostConnected[1].node # graph.nodes[1]
    /\ returned.mostConnected[1].inbound > 0
    /\ returned.mostConnected[1].outbound > 0
    /\ \E i \in 1..Len(graph.nodes) :
          /\ RankOf(i) > 5
          /\ Degree(i) = returned.mostConnected[5].inbound + returned.mostConnected[5].outbound

(***************************************************************************)
(* Vocabulary of the frame claims                                          *)
(***************************************************************************)
\* an analyzer exists: it was constructed and the handler has not answered yet
Constructed == phase \in {"ready", "done"}

\* a step of a constructed analyzer that is kept
AnalyzerKept == Constructed /\ phase' \in {"ready", "done"}

\* a query is called that is the query answered last
SameQueryAgain == phase = "ready" /\ phase' = "done" /\ request' = request

(***************************************************************************)
(* C16: the analyzer never mutates its inputs or indices: through any      *)
(* sequence of getBlastRadius, findCouplingReason, detectCycles and        *)
(* getStatistics calls the graph's nodes and edges lists and both          *)
(* adjacency indices stay what they were right after construction, and a   *)
(* query that is repeated returns the same result.                         *)
(***************************************************************************)
C16_AnalyzerNeverMutates ==
    /\ [](Constructed =>
            /\ adjacencyList = buildAdjacencyList(graph)
            /\ reverseAdjacencyList = buildReverseAdjacencyList(graph))
    /\ [][AnalyzerKept =>
            /\ graph'.nodes = graph.nodes
            /\ graph'.edges = graph.edges
            /\ adjacencyList' = adjacencyList
            /\ reverseAdjacencyList' = reverseAdjacencyList]_vars
    /\ [][SameQueryAgain => returned' = returned]_vars

\* getStatistics has answered with a most connected node that is not the first
\* node of the graph, and the analyzer is ready for the next call
C16_Witness ==
    /\ phase = "ready"
    /\ request.op = "getStatistics"
    /\ Len(graph.nodes) > 1
    /\ returned.mostConnected[1].node # graph.nodes[1]
    /\ adjacencyList = buildAdjacencyList(graph)

\* an analyzer exists that was constructed on a graph loaded from the storage
AnalyzerLoaded == Constructed /\ request.op # "loadGraph"

\* a step of the storage: a saveGraph, or a step of a deleteGraph
StorageStep == db' # db \/ deleting' # deleting

(***************************************************************************)
(* C17: an analyzer constructed on a graph loaded from storage keeps       *)
(* answering from that snapshot: a saveGraph that overwrites the same      *)
(* graph id, or a deleteGraph of it, interleaved in any order with the     *)
(* analyzer's queries, changes neither the analyzer's graph and indices    *)
(* nor any of its results.                                                 *)
(***************************************************************************)
C17_AnswersFromSnapshot ==
    /\ [](AnalyzerLoaded =>
            /\ graph.id \in GraphIds
            /\ adjacencyList = buildAdjacencyList(graph)
            /\ reverseAdjacencyList = buildReverseAdjacencyList(graph))
    /\ [][(AnalyzerLoaded /\ StorageStep) =>
            UNCHANGED <<graph, adjacencyList, reverseAdjacencyList, request, returned>>]_vars
    /\ [][(AnalyzerLoaded /\ SameQueryAgain) => returned' = returned]_vars

\* the analyzer has answered from a graph whose row has been overwritten with
\* another graph since
C17_Witness ==
    /\ AnalyzerLoaded
    /\ phase = "done"
    /\ request.op = "getBlastRadius"
    /\ returned.affectedNodes # <<>>
    /\ graph.id \in DOMAIN db
    /\ loadGraph(graph.id) # graph

(***************************************************************************)
(* Vocabulary of the claims about mergeGraphs                              *)
(***************************************************************************)
MergeReturned == phase = "done" /\ request.op = "mergeGraphs"

Closed(g) ==
    \A i \in 1..Len(g.edges) :
        g.edges[i].source \in nodeIdsOf(g) /\ g.edges[i].target \in nodeIdsOf(g)

\* the node with that id in the first input graph that has one
FirstNodeWith(id) ==
    LET g == request.graphs[Least({k \in 1..Len(request.graphs) :
                                      id \in nodeIdsOf(request.graphs[k])})]
    IN g.nodes[Least({i \in 1..Len(g.nodes) : g.nodes[i].id = id})]

\* the positions <<graph, edge>> of the input edges
InputEdges ==
    {p \in (1..Len(request.graphs)) \X (1..MaxMergeFacts) :
        p[2] <= Len(request.graphs[p[1]].edges)}

InputEdge(p) == request.graphs[p[1]].edges[p[2]]

\* the first input edge, in list order, with that source, target and kind
FirstEdgeWith(t) ==
    LET at == {p \in InputEdges : TripleOf(InputEdge(p)) = t}
    IN InputEdge(CHOOSE p \in at :
                    \A q \in at : p[1] < q[1] \/ (p[1] = q[1] /\ p[2] <= q[2]))

NodeView(n) == <<n.id, n.name, n.type>>

(***************************************************************************)
(* C18: mergeGraphs(graphs, name) returns the union by id of the input     *)
(* graphs' nodes, keeping for each id the node of the first graph that     *)
(* contains it, and the union of the input edges deduplicated by (source,  *)
(* target, kind) keeping the first occurrence; if every input graph has    *)
(* all edge endpoints among its nodes, so does the merged graph, and its   *)
(* sourcePath is 'merged'.                                                 *)
(***************************************************************************)
C18_MergeIsUnion ==
    MergeReturned =>
        /\ nodeIdsOf(returned) = UNION {nodeIdsOf(request.graphs[k]) : k \in 1..Len(request.graphs)}
        /\ \A i \in 1..Len(returned.nodes) :
              /\ returned.nodes[i] = FirstNodeWith(returned.nodes[i].id)
              /\ \A j \in 1..Len(returned.nodes) :
                    returned.nodes[j].id = returned.nodes[i].id => j = i
        /\ {TripleOf(returned.edges[i]) : i \in 1..Len(returned.edges)}
              = {TripleOf(InputEdge(p)) : p \in InputEdges}
        /\ \A i \in 1..Len(returned.edges) :
              /\ returned.edges[i] = FirstEdgeWith(TripleOf(returned.edges[i]))
              /\ \A j \in 1..Len(returned.edges) :
                    TripleOf(returned.edges[j]) = TripleOf(returned.edges[i]) => j = i
        /\ (\A k \in 1..Len(request.graphs) : Closed(request.graphs[k])) => Closed(returned)
        /\ returned.metadata.sourcePath = "merged"

(***************************************************************************)
(* C19: for every graph g produced by buildGraph, mergeGraphs([g], g.name) *)
(* has the nodes of g (ids, names, types) and the edges of g (source,      *)
(* target, kind), in the same order; and so has mergeGraphs([g, g],        *)
(* g.name).                                                                *)
(***************************************************************************)
C19_MergeOfOneGraph ==
    (/\ MergeReturned
     /\ Len(request.graphs) \in {1, 2}
     /\ \A k \in 1..Len(request.graphs) : request.graphs[k] = request.graphs[1]) =>
        /\ [i \in 1..Len(returned.nodes) |-> NodeView(returned.nodes[i])]
              = [i \in 1..Len(request.graphs[1].nodes) |-> NodeView(request.graphs[1].nodes[i])]
        /\ [i \in 1..Len(returned.edges) |-> TripleOf(returned.edges[i])]
              = [i \in 1..Len(request.graphs[1].edges) |-> TripleOf(request.graphs[1].edges[i])]

\* a graph of two nodes and two edges is merged with itself
C19_Witness ==
    /\ MergeReturned
    /\ Len(request.graphs) = 2
    /\ request.graphs[1] = request.graphs[2]
    /\ Len(request.graphs[1].nodes) = 2
    /\ Len(request.graphs[1].edges) >= 2
    /\ returned.edges = request.graphs[1].edges

(***************************************************************************)
(* Vocabulary of the claims about createNode                               *)
(***************************************************************************)
NodeCreated == phase = "done" /\ request.op = "createNode"

HasPrefix(s, p) == Len(s) >= Len(p) /\ \A i \in 1..Len(p) : s[i] = p[i]

Contains(s, p) ==
    \E k \in 0..(Len(s) - Len(p)) : \A i \in 1..Len(p) : s[k + i] = p[i]

\* the text of s after the last occurrence of the character c, which occurs in s
AfterLast(s, c) ==
    LET last == CHOOSE i \in 1..Len(s) : s[i] = c /\ \A j \in (i + 1)..Len(s) : s[j] # c
    IN [k \in 1..(Len(s) - last) |-> s[last + k]]

DeploymentPrefixed(id) ==
    \E p \in { <<"D", "e", "p", "l", "o", "y", "m", "e", "n", "t", "/">>,
                <<"S", "t", "a", "t", "e", "f", "u", "l", "S", "e", "t", "/">>,
                <<"D", "a", "e", "m", "o", "n", "S", "e", "t", "/">>,
                <<"C", "o", "n", "f", "i", "g", "M", "a", "p", "/">>,
                <<"S", "e", "c", "r", "e", "t", "/">> } : HasPrefix(id, p)

ServicePrefixed(id) == HasPrefix(id, <<"S", "e", "r", "v", "i", "c", "e", "/">>)

NamesDatabase(id) ==
    Contains(id, <<"d", "b">>) \/ Contains(id, <<"r", "d", "s">>) \/ Contains(id, <<"d", "a", "t", "a", "b", "a", "s", "e">>)

NamesQueue(id) ==
    Contains(id, <<"q", "u", "e", "u", "e">>) \/ Contains(id, <<"s", "q", "s">>) \/ Contains(id, <<"s", "n", "s">>)

\* the segment the name is taken from
LastSegment(id) ==
    IF Contains(id, <<"/">>)
    THEN AfterLast(id, "/")
    ELSE IF Contains(id, <<".">>)
    THEN AfterLast(id, ".")
    ELSE id

(***************************************************************************)
(* C21: inferNodeType applies its rules in priority order: the id-prefix   *)
(* rules (Deployment/, StatefulSet/, DaemonSet/, ConfigMap/, Secret/ give  *)
(* k8s_deployment; Service/ gives k8s_service) override every kind-based   *)
(* rule; for kind terraform_resource an id containing 'db', 'rds' or       *)
(* 'database' is 'database' even if it also contains 'queue', 'sqs' or     *)
(* 'sns'; a kind that no rule names, with an unprefixed id, gives          *)
(* 'unknown'.                                                              *)
(***************************************************************************)
C21_TypeRulesInPriorityOrder ==
    NodeCreated =>
        /\ DeploymentPrefixed(request.id) => returned.type = "k8s_deployment"
        /\ ServicePrefixed(request.id) => returned.type = "k8s_service"
        /\ (/\ ~DeploymentPrefixed(request.id)
            /\ ~ServicePrefixed(request.id)
            /\ request.depType = "terraform_resource"
            /\ NamesDatabase(request.id)) => returned.type = "database"
        /\ (/\ ~DeploymentPrefixed(request.id)
            /\ ~ServicePrefixed(request.id)
            /\ request.depType \in {"k8s_service", "k8s_deployment", "k8s_configmap",
                                     "k8s_secret", "unknown"}) => returned.type = "unknown"

\* a Service/ id of kind terraform_resource that names a database and a queue
C21_Witness ==
    /\ NodeCreated
    /\ ServicePrefixed(request.id)
    /\ request.depType = "terraform_resource"
    /\ NamesDatabase(request.id)
    /\ NamesQueue(request.id)
    /\ returned.type = "k8s_service"

(***************************************************************************)
(* C22 as stated: for every id, the display name is the segment after the  *)
(* last '/' if the id contains '/', otherwise the segment after the last   *)
(* '.' if it contains '.', otherwise the id; also for ids that end in '/'  *)
(* or '.'.                                                                 *)
(***************************************************************************)
C22_NameIsLastSegment ==
    NodeCreated => returned.name = LastSegment(request.id)

(***************************************************************************)
(* C22 amended: the display name is that segment unless the segment is     *)
(* empty (the id ends in the separator that is used); then it is the id    *)
(* itself.                                                                 *)
(***************************************************************************)
C22_NameIsLastSegmentOrId ==
    NodeCreated =>
        returned.name = IF LastSegment(request.id) = <<>>
                        THEN request.id
                        ELSE LastSegment(request.id)

\* an id with both separators that ends in '/': the name is the whole id
C22_Witness ==
    /\ NodeCreated
    /\ Contains(request.id, <<".">>)
    /\ Len(request.id) > 1
    /\ request.id[Len(request.id)] = "/"
    /\ returned.name = request.id

(***************************************************************************)
(* Vocabulary of the claims about the cycles reported                      *)
(***************************************************************************)
\* the depth-first forest of the graph, roots in node insertion order,
\* neighbours in adjacency order: the time each node is entered and left
RECURSIVE Visit(_, _), VisitEach(_, _, _)
VisitEach(neighbors, i, tm) ==
    IF i > Len(neighbors)
    THEN tm
    ELSE IF neighbors[i] \in DOMAIN tm.entered
    THEN VisitEach(neighbors, i + 1, tm)
    ELSE VisitEach(neighbors, i + 1, Visit(neighbors[i], tm))

Visit(u, tm) ==
    LET in == [clock |-> tm.clock + 1,
               entered |-> mapSet(tm.entered, u, tm.clock),
               left |-> tm.left]
        out == VisitEach(mapGet(adjacencyList, u), 1, in)
    IN [clock |-> out.clock + 1,
        entered |-> out.entered,
        left |-> mapSet(out.left, u, out.clock)]

RECURSIVE VisitRoots(_, _)
VisitRoots(i, tm) ==
    IF i > Len(graph.nodes)
    THEN tm
    ELSE IF graph.nodes[i].id \in DOMAIN tm.entered
    THEN VisitRoots(i + 1, tm)
    ELSE VisitRoots(i + 1, Visit(graph.nodes[i].id, tm))

Forest == VisitRoots(1, [clock |-> 0, entered |-> <<>>, left |-> <<>>])

\* the adjacency entries (u, k) whose target is u or an ancestor of u in the
\* forest: the entries examined while their target is on the recursion stack
BackEntries ==
    LET tm == Forest
    IN UNION { { <<u, k>> : k \in { j \in 1..Len(adjacencyList[u]) :
                                     LET v == adjacencyList[u][j]
                                     IN /\ tm.entered[v] <= tm.entered[u]
                                        /\ tm.left[u] <= tm.left[v] } }
               : u \in DOMAIN adjacencyList }

(***************************************************************************)
(* C23: every entry of detectCycles().cycles is a real directed cycle of   *)
(* the graph: a non-empty sequence of pairwise distinct nodes in which     *)
(* each node has an edge to the next one and the last has an edge to the   *)
(* first (a one-node entry is a self-loop).                                *)
(***************************************************************************)
C23_EntriesAreCycles ==
    CyclesReturned =>
        \A k \in 1..Len(returned.cycles) :
            LET cycle == returned.cycles[k]
                n == Len(cycle)
            IN /\ n > 0
               /\ \A i \in 1..n : \E m \in 1..Len(graph.nodes) : graph.nodes[m] = cycle[i]
               /\ \A i, j \in 1..n : i # j => cycle[i].id # cycle[j].id
               /\ \A i \in 1..n : <<cycle[i].id, cycle[(i % n) + 1].id>> \in EdgePairs

\* a cycle of two or more nodes that is entered from a node outside it, and a
\* self-loop
C23_Witness ==
    /\ CyclesReturned
    /\ \E k \in 1..Len(returned.cycles) :
           /\ Len(returned.cycles[k]) >= 2
           /\ returned.cycles[k][1] # graph.nodes[1]
    /\ \E k \in 1..Len(returned.cycles) : Len(returned.cycles[k]) = 1

(***************************************************************************)
(* C24: detectCycles reports one entry per back-edge found: the number of  *)
(* entries is the number of adjacency entries (u, v) examined while v is   *)
(* on the recursion stack, roots taken in node insertion order;            *)
(* overlapping or equal cycles are not deduplicated.                       *)
(***************************************************************************)
C24_OneEntryPerBackEdge ==
    CyclesReturned => Len(returned.cycles) = Cardinality(BackEntries)

\* the same cycle is listed twice (parallel edges close it twice)
C24_Witness ==
    /\ CyclesReturned
    /\ \E i, j \in 1..Len(returned.cycles) :
           /\ i < j
           /\ returned.cycles[i] = returned.cycles[j]

(***************************************************************************)
(* Vocabulary of the claims about the traversals                           *)
(***************************************************************************)
Range(seq) == {seq[i] : i \in 1..Len(seq)}

\* the Set collectAllDependents fills for the node asked about
DependentsCollected == Range(collectAllDependents(request.nodeId, <<>>))

OnCycle(x) == x \in Dependencies(x)

(***************************************************************************)
(* C26: the two upstream traversals agree: the ids of the affected nodes   *)
(* of getBlastRadius(x) are the ids collectAllDependents(x) collects, with *)
(* x removed; the recursive closure contains x exactly when x lies on a    *)
(* cycle.                                                                  *)
(***************************************************************************)
C26_TraversalsAgree ==
    BlastRadiusReturned =>
        /\ IdsOf(returned.affectedNodes) = DependentsCollected \ {request.nodeId}
        /\ request.nodeId \in DependentsCollected <=> OnCycle(request.nodeId)

\* a node on a cycle with a further dependent: the closure holds the node
\* itself, the blast radius does not
C26_Witness ==
    /\ BlastRadiusReturned
    /\ request.nodeId \in DependentsCollected
    /\ request.nodeId \notin IdsOf(returned.affectedNodes)
    /\ Cardinality(IdsOf(returned.affectedNodes)) >= 2

(***************************************************************************)
(* C27: in every getBlastRadius(nodeId) result the source of every         *)
(* affected edge is an affected node or nodeId itself: no affected edge    *)
(* starts at a node the failure does not reach.                            *)
(***************************************************************************)
C27_AffectedEdgesStartAtAffected ==
    (BlastRadiusReturned /\ ClosedGraph) =>
        \A i \in 1..Len(returned.affectedEdges) :
            \/ returned.affectedEdges[i].source \in IdsOf(returned.affectedNodes)
            \/ returned.affectedEdges[i].source = request.nodeId

\* an affected edge that starts at nodeId itself, and an edge of the graph
\* that starts at an unreached node and is not affected
C27_Witness ==
    /\ BlastRadiusReturned
    /\ ClosedGraph
    /\ \E i \in 1..Len(returned.affectedEdges) :
           /\ returned.affectedEdges[i].source = request.nodeId
           /\ returned.affectedEdges[i].target # request.nodeId
    /\ \E i \in 1..Len(graph.edges) :
           /\ graph.edges[i].source \notin IdsOf(returned.affectedNodes) \cup {request.nodeId}
           /\ \A j \in 1..Len(returned.affectedEdges) : returned.affectedEdges[j] # graph.edges[i]

(***************************************************************************)
(* C28: on an acyclic graph, for two or more input ids that are nodes, the *)
(* shared dependencies and the shared dependents of findCouplingReason are *)
(* disjoint and contain none of the input nodes, so couplingStrength is    *)
(* strictly less than 1; a value above 1 occurs only on a graph with a     *)
(* cycle.                                                                  *)
(***************************************************************************)
C28_AcyclicStrengthBelowOne ==
    CouplingReturned =>
        /\ (/\ ~HasCycle
            /\ Len(request.nodeIds) >= 2
            /\ Range(request.nodeIds) \subseteq nodeIdsOf(graph)) =>
               /\ IdsOf(returned.sharedDependencies)
                     \cap Range(sharedDependentsOf(request.nodeIds)) = {}
               /\ IdsOf(returned.sharedDependencies) \cap Range(request.nodeIds) = {}
               /\ Range(sharedDependentsOf(request.nodeIds)) \cap Range(request.nodeIds) = {}
               /\ gt(One, returned.couplingStrength)
        /\ gt(returned.couplingStrength, One) => HasCycle

\* an acyclic graph and inputs with a shared dependency and a shared dependent
C28_Witness ==
    /\ CouplingReturned
    /\ ~HasCycle
    /\ Len(request.nodeIds) >= 2
    /\ Range(request.nodeIds) \subseteq nodeIdsOf(graph)
    /\ Len(returned.sharedDependencies) > 0
    /\ Len(sharedDependentsOf(request.nodeIds)) > 0
    /\ gt(One, returned.couplingStrength)

(***************************************************************************)
(* C29: deleteGraph(id) returns true only when a graph with that id was    *)
(* stored before the call; for an id that was never saved or was already   *)
(* deleted it returns false.                                               *)
(***************************************************************************)
C29_DeleteReportsWhetherStored ==
    deleting.status = "returned" => (deleting.value = TRUE => deleting.stored)

(***************************************************************************)
(* Vocabulary of the claim about termination                               *)
(***************************************************************************)
NoDuplicates(seq) == \A i, j \in 1..Len(seq) : i # j => seq[i] # seq[j]

Traversing == phase = "running"

Traversed == phase = "done" /\ run.fn # "none"

\* what the call answers when it is computed in one piece
Answer ==
    IF request.op = "getBlastRadius" THEN getBlastRadius(request.nodeId)
    ELSE IF request.op = "findCouplingReason" THEN findCouplingReason(request.nodeIds)
    ELSE detectCycles

(***************************************************************************)
(* C25: getBlastRadius, findCouplingReason and detectCycles terminate on   *)
(* every graph, with cycles, self-loops and parallel edges: a traversal    *)
(* that has started returns, it enqueues or recurses into any node at most *)
(* once per call, and when detectCycles returns its recursion stack and    *)
(* its path are empty.                                                     *)
(***************************************************************************)
C25_TraversalsTerminate ==
    /\ Traversing ~> Traversed
    /\ []((Traversing \/ Traversed) => NoDuplicates(run.entered))
    /\ []((Traversed /\ run.fn = "detectCycles") =>
              run.st.recStack = {} /\ run.st.path = <<>>)
    /\ [](Traversed => returned = Answer)

\* detectCycles has returned on a graph with a cycle of two nodes
C25_Witness ==
    /\ Traversed
    /\ run.fn = "detectCycles"
    /\ Len(returned.cycles) >= 1
    /\ Len(returned.cycles[1]) = 2
    /\ run.st.recStack = {}
    /\ run.st.path = <<>>

(***************************************************************************)
(* Vocabulary of the claim about the sessions                              *)
(***************************************************************************)
\* the step is a call of the method op
Called(op) == phase = "idle" /\ phase' = "done" /\ request'.op = op

\* the session of that id is in the Map and had its last activity no more
\* than 30 minutes ago
Fresh(sessionId) ==
    \E k \in 1..Len(sessions) :
        /\ sessions[k].id = sessionId
        /\ now - sessions[k].lastActivity <= 30 * 60 * 1000

\* the Map with the last activity of that session set to now
Touched(sessionId) ==
    [k \in 1..Len(sessions) |->
        IF sessions[k].id = sessionId
        THEN [sessions[k] EXCEPT !.lastActivity = now]
        ELSE sessions[k]]

\* the Map without that session
Without(sessionId) == SelectSeq(sessions, LAMBDA session : session.id # sessionId)

====
